---- MODULE Spec2Model ----
(***************************************************************************)
(* Verification model of n8n-nodes-oracle-database.                        *)
(*                                                                         *)
(* Each component is modelled with its own specification:                  *)
(*   SpecCred     credential normalization (prepareOracleCredentials,      *)
(*                OracleCredentialsUtils)                                  *)
(*   SpecConn     OracleConnection.getConnection and mode resolution       *)
(*   SpecNodeConn the same, for a connection built by a node               *)
(*   SpecFacade   the node facades' execute / testConnection /             *)
(*                getSchemaInfo                                            *)
(*   SpecAQ       AQOperations enqueue / dequeue                           *)
(*   SpecBulk     executeBulkOperations                                    *)
(*   SpecSanitize OracleCredentialsUtils.sanitizeForLogging                *)
(*   SpecVector   the Vector Store node's operations                       *)
(*   SpecParams   parameter rows translated to a bind map                  *)
(*   SpecItems    the item loop of OracleDatabaseAdvanced.execute          *)
(*   SpecConcurrent  several getConnection calls interleaved at awaits     *)
(* The Oracle driver, the database and the file system are the             *)
(* environment: each of their answers is a nondeterministic choice.        *)
(***************************************************************************)
EXTENDS Integers, Sequences, FiniteSets, TLC

VARIABLES
    \* ---- credential normalization ----
    variant,            \* which copy of the Advanced node: "v11" (1.1.0) or "v10" (1.0.0)
    rawCredentials,     \* the record the host hands to getCredentials()
    credPc,             \* "prepare" | "initClient" | "connect" | "done" | "threw"
    credResult,         \* result of prepareOracleCredentials
    clientInitAttempted,\* oracledb.initOracleClient was called
    clientInitOutcome,  \* how that call ended: "none" or one of InitClientOutcomes
    connectAttempted,   \* a connection was requested
    connectionConfig    \* result of createConnectionConfig

credVars == <<variant, rawCredentials, credPc, credResult, clientInitAttempted, clientInitOutcome, connectAttempted, connectionConfig>>

VARIABLES
    \* ---- AQOperations ----
    aqOp,               \* "none" or one of AQOperationNames
    aqPc,               \* "idle" | "start" | "loop" | "finalCommit" | "done" | "threw"
    aqQueueName,        \* queueName argument, a string
    aqConfigAutoCommit, \* this.config.autoCommit
    aqOptAutoCommit,    \* options.autoCommit: "undef" | "true" | "false"
    aqUseTransaction,   \* enqueueBatch's local useTransaction
    aqMessages,         \* messages argument: sequence of [payload : "undefined" | "text"]
    aqResults,          \* enqueueBatch's results array
    aqErrors,           \* enqueueBatch's errors array: [position, text]
    aqSuccessCount,     \* enqueueBatch's successCount
    aqDriver,           \* what the driver did on each attempted message (environment history)
    aqFinalCommit,      \* outcome of enqueueBatch's final commit: "none" | "ok" | "failed"
    aqExecuteCalls,     \* number of connection.execute calls
    aqCommitCalls,      \* number of connection.commit calls
    aqRollbackCalls,    \* number of connection.rollback calls
    aqReturn            \* the value returned to the caller

aqVars == <<aqOp, aqPc, aqQueueName, aqConfigAutoCommit, aqOptAutoCommit, aqUseTransaction,
            aqMessages, aqResults, aqErrors, aqSuccessCount, aqDriver, aqFinalCommit,
            aqExecuteCalls, aqCommitCalls, aqRollbackCalls, aqReturn>>

VARIABLES
    \* ---- OracleConnection (core/connection.ts) ----
    connMode,           \* this.connectionConfig.mode: "auto" | "thin" | "thick"
    initialMode,        \* the mode the constructor was given (history)
    connLibDir,         \* this.connectionConfig.libDir is set
    libDirGiven,        \* a libDir was given to the constructor (history)
    autoInstall,        \* this.connectionConfig.autoInstall
    detectedConfig,     \* this.detectedConfig: "unset" | "helper" | "fallback"
    clientInitialized,  \* static OracleConnection.clientInitialized
    envLibPath,         \* LD_LIBRARY_PATH or DYLD_LIBRARY_PATH is set
    envPathOracle,      \* PATH mentions "oracle"
    posix,              \* process.platform is linux or darwin
    detectorPresent,    \* require('../script/oracle-detector') resolves
    installerPresent,   \* require('../script/oracle-installer') resolves
    processAlive,       \* FALSE once process.exit was called
    connPc,             \* position inside getConnection
    connCalls,          \* getConnection calls made so far
    connResult,         \* outcome of the last call: "none" | "connection" | "error"
    initDepth,          \* nesting of initializeThickClient inside tryAutoInstall
    resolved,           \* what autoDetectOracleClient resolved, and from what (history)
    lastInstall,        \* outcome of the last auto-install attempt (history)
    fellBack,           \* tryAutoInstall's catch switched the mode to thin (history)
    initClientCalls,    \* oracledb.initOracleClient calls of the current getConnection
    installerRuns,      \* installer.run() calls of the current getConnection
    driverConnectCalls  \* oracledb.getConnection calls of the current getConnection

connVars == <<connMode, initialMode, connLibDir, libDirGiven, autoInstall, detectedConfig,
              clientInitialized, envLibPath, envPathOracle, posix, detectorPresent,
              installerPresent, processAlive, connPc, connCalls, connResult, initDepth,
              resolved, lastInstall, fellBack, initClientCalls, installerRuns,
              driverConnectCalls>>

VARIABLES
    \* ---- node facades: one run of an entry point ----
    fNode,              \* "AdvancedV11" | "AdvancedV10" | "Basic" | "Vector" | "OracleConnection"
    fEntry,             \* "execute" | "testConnection" | "getSchemaInfo"
    fPc,                \* position inside the entry point
    fOpType,            \* the operationType / operation parameter
    fItems,             \* items.length
    fItemIndex,         \* itemIndex of the item loop
    fThick,             \* isThickModeCredentials(credentials)
    fConnObtained,      \* the run was handed a connection (history)
    fConnOpen,          \* that connection is still open
    fCloseCalls,        \* connection.close() calls of the run
    fPending,           \* error travelling to the outer catch: "none" | "Error" | "NodeOperationError"
    fErrorSource,       \* where the first error of the run was raised (history)
    fOutcome,           \* "none" | "returned" | "returnedFalse" | "Error" | "NodeOperationError"
    txContinueOnError,  \* advancedOptions.continueOnError
    txStatements,       \* number of statements the transaction block splits into
    txIndex,            \* statements executeBatch has gone through
    txFailedAt,         \* position of the first failing statement, 0 if none
    txBeginCalls,       \* txManager.beginTransaction calls of the current transaction
    txCommitCalls,      \* txManager.commit calls of the current transaction
    txRollbackCalls,    \* txManager.rollback calls of the current transaction
    txCommitted,        \* the current transaction's effects were committed
    txLog               \* the transactions begun so far, in order: item, state, rollback outcome

facadeVars == <<fNode, fEntry, fPc, fOpType, fItems, fItemIndex, fThick, fConnObtained,
                fConnOpen, fCloseCalls, fPending, fErrorSource, fOutcome, txContinueOnError,
                txStatements, txIndex, txFailedAt, txBeginCalls, txCommitCalls,
                txRollbackCalls, txCommitted, txLog>>

VARIABLES
    \* ---- executeBulkOperations (Advanced node) ----
    bkVariant,            \* node version running executeBulkOperations: "v11" or "v10"
    bkPc,                 \* position: "start", "insert", "returned", "threw"
    bkTableBlank,         \* the targetTable parameter is blank
    bkRows,               \* data.length
    bkContinueOnError,    \* advancedOptions.continueOnError
    bkIndex,              \* rows bulkInsert has gone through
    bkInserted,           \* rows inserted so far
    bkErrors,             \* positions of the rows that failed (the result's error entries)
    bkItem                \* the item handed back to execute

bulkVars == <<bkVariant, bkPc, bkTableBlank, bkRows, bkContinueOnError, bkIndex,
              bkInserted, bkErrors, bkItem>>

VARIABLES
    \* ---- OracleCredentialsUtils.sanitizeForLogging ----
    sanFirst,             \* the first credentials object handed to sanitizeForLogging
    sanSecond,            \* a second credentials object, sanitized independently
    sanFirstBefore,       \* the first object as it was before the call (history)
    sanSecondBefore,      \* the second object as it was before the call (history)
    sanFirstOut,          \* what sanitizeForLogging returned for the first object
    sanSecondOut          \* what sanitizeForLogging returned for the second object

sanVars == <<sanFirst, sanSecond, sanFirstBefore, sanSecondBefore, sanFirstOut,
             sanSecondOut>>

VARIABLES
    \* ---- OracleVectorStore operations ----
    vsOperation,          \* the operation parameter of the Vector Store node
    vsCollectionName,     \* the collectionName parameter, a string of characters
    vsInputsValid,        \* the operation's other input checks pass
    vsItems,              \* input items (addDocument inserts once per item)
    vsPc,                 \* position: "start", "run", "returned", "threw"
    vsNameChecked,        \* the collection name was matched against the identifier pattern
    vsIndex,              \* statements executed so far
    vsExecuted            \* the statements handed to connection.execute, with the parameters spliced into their text

vectorVars == <<vsOperation, vsCollectionName, vsInputsValid, vsItems, vsPc,
                vsNameChecked, vsIndex, vsExecuted>>

VARIABLES
    \* ---- parameter rows to bind map ----
    pmFacade,             \* the facade translating the rows: "AdvancedV11", "AdvancedV10", "Basic" ("none" when off)
    pmRows,               \* the parameter rows entered by the user
    pmPc,                 \* "off", "translate", "execute", "done", "threw"
    pmIndex,              \* number of rows already translated
    pmBinds,              \* the bind values built so far, in row order
    pmExecuted            \* a statement was handed to the driver with pmBinds

paramVars == <<pmFacade, pmRows, pmPc, pmIndex, pmBinds, pmExecuted>>

VARIABLES
    \* ---- item loop of OracleDatabaseAdvanced.execute ----
    itVariant,            \* "v11" (1.1.0, part_001) or "v10" (1.0.0) ("none" when off)
    itOp,                 \* operationType
    itItems,              \* number of input items
    itContinueOnError,    \* advanced option continueOnError
    itPc,                 \* "off", "connect", "loop", "itemCatch", "outerCatch", "returned", "threw"
    itIndex,              \* itemIndex of the loop
    itOffending,          \* index of the input item whose processing failed (-1: none)
    itOriginal,           \* message of the error the orchestrator or driver threw
    itError,              \* the error in flight, then the error thrown to the host
    itTableBlank,         \* the targetTable parameter is blank
    itInvoked,            \* the items an orchestrator was invoked for, in call order
    itBulkInserts         \* the number of records of each bulkInsert call, in call order

itemVars == <<itVariant, itOp, itItems, itContinueOnError, itPc, itIndex, itOffending,
              itOriginal, itError, itTableBlank, itInvoked, itBulkInserts>>

VARIABLES
    \* ---- concurrent getConnection calls ----
    ccPc,                 \* per call: "idle", "detect", "installerCheck", "installing", "connect", "done", "failed", "exited"
    ccAutoInstall,        \* per call: connectionConfig.autoInstall
    ccClientInitialized,  \* the static OracleConnection.clientInitialized shared by the calls
    ccDriverThick,        \* the driver has loaded the client libraries
    ccClientOnDisk,       \* the local Instant Client directory exists
    ccInstallerRuns,      \* per call: installer.run() invocations
    ccInitSuccesses       \* oracledb.initOracleClient calls that returned without error

concVars == <<ccPc, ccAutoInstall, ccClientInitialized, ccDriverThick, ccClientOnDisk,
              ccInstallerRuns, ccInitSuccesses>>

vars == <<credVars, aqVars, connVars, facadeVars, bulkVars, sanVars, vectorVars,
         paramVars, itemVars, concVars>>

\* the other components stand still while credentials are normalized
CredFrame == UNCHANGED <<aqVars, connVars, facadeVars, bulkVars, sanVars, vectorVars, paramVars,
                           itemVars, concVars>>

\* the other components stand still while an AQ operation runs
AQFrame == UNCHANGED <<credVars, connVars, facadeVars, bulkVars, sanVars, vectorVars, paramVars,
                         itemVars, concVars>>

\* the other components stand still while getConnection runs
ConnFrame == UNCHANGED <<credVars, aqVars, facadeVars, bulkVars, sanVars, vectorVars, paramVars,
                           itemVars, concVars>>

\* the other components stand still while a facade entry point runs
FacadeFrame == UNCHANGED <<credVars, aqVars, connVars, bulkVars, sanVars, vectorVars, paramVars, itemVars,
                             concVars>>

\* the other components stand still while executeBulkOperations runs
BulkFrame == UNCHANGED <<credVars, aqVars, connVars, facadeVars, sanVars, vectorVars, paramVars,
                           itemVars, concVars>>

\* the other components stand still while credentials are sanitized for logging
SanitizeFrame == UNCHANGED <<credVars, aqVars, connVars, facadeVars, bulkVars, vectorVars, paramVars,
                               itemVars, concVars>>

\* the other components stand still while a Vector Store operation runs
VectorFrame == UNCHANGED <<credVars, aqVars, connVars, facadeVars, bulkVars, sanVars, paramVars, itemVars,
                             concVars>>

\* the other components stand still while parameter rows are translated
ParamFrame == UNCHANGED <<credVars, aqVars, connVars, facadeVars, bulkVars, sanVars, vectorVars, itemVars,
                            concVars>>

\* the other components stand still while the item loop runs
ItemFrame == UNCHANGED <<credVars, aqVars, connVars, facadeVars, bulkVars, sanVars, vectorVars,
                           paramVars, concVars>>

\* the other components stand still while concurrent calls run
ConcFrame == UNCHANGED <<credVars, aqVars, connVars, facadeVars, bulkVars, sanVars, vectorVars,
                           paramVars, itemVars>>

-----------------------------------------------------------------------------
(* Bounds *)

\* longest raw string a credential field is drawn from
MaxStrLen == 1

\* largest batch handed to enqueueBatch
MaxMessages == 3

\* getConnection calls made on one OracleConnection
MaxCalls == 2

\* deepest nesting of initializeThickClient inside tryAutoInstall that is followed
MaxInitDepth == 2

\* most input items handed to execute
MaxItems == 2

\* most statements in one transaction block
MaxStatements == 3

\* most rows handed to a bulk insert
MaxRows == 3

\* most input items handed to addDocument
MaxDocuments == 2

\* getConnection calls of one process that are in flight together
MaxConcurrentCalls == 2

-----------------------------------------------------------------------------
(* JavaScript values and strings. A string is a sequence of characters. *)

Chars == {" ", "h"}

RECURSIVE StrUpTo(_)
StrUpTo(n) ==
    IF n = 0 THEN {<<>>}
    ELSE LET shorter == StrUpTo(n - 1)
         IN  shorter \cup {Append(s, c) : s \in shorter, c \in Chars}

JsUndef == [t |-> "undef", s |-> <<>>, b |-> FALSE]
JsNull == [t |-> "null", s |-> <<>>, b |-> FALSE]
JsStr(str) == [t |-> "str", s |-> str, b |-> FALSE]
JsBool(bool) == [t |-> "bool", s |-> <<>>, b |-> bool]

\* JavaScript truthiness, as used by `x || ''` and `x ? a : b`
Truthy(v) ==
    \/ v.t = "str" /\ v.s # <<>>
    \/ v.t = "bool" /\ v.b

\* String(v)
StringOf(v) ==
    CASE v.t = "undef" -> <<"u", "n", "d", "e", "f", "i", "n", "e", "d">>
      [] v.t = "null"  -> <<"n", "u", "l", "l">>
      [] v.t = "bool"  -> IF v.b THEN <<"t", "r", "u", "e">> ELSE <<"f", "a", "l", "s", "e">>
      [] OTHER         -> v.s

RECURSIVE TrimLeft(_)
TrimLeft(s) == IF s # <<>> /\ Head(s) = " " THEN TrimLeft(Tail(s)) ELSE s

RECURSIVE TrimRight(_)
TrimRight(s) ==
    IF s # <<>> /\ s[Len(s)] = " " THEN TrimRight(SubSeq(s, 1, Len(s) - 1)) ELSE s

\* String.prototype.trim
Trim(s) == TrimRight(TrimLeft(s))

-----------------------------------------------------------------------------
(* The state of a component that is not running *)

\* oracledb.initOracleClient: success, library not found, already
\* initialised, any other error
InitClientOutcomes == {"ok", "DPI-1047", "DPI-1072", "other"}

NoCredentials ==
    [user |-> JsStr(<<>>), password |-> JsStr(<<>>), connectionString |-> JsStr(<<>>),
     thinMode |-> TRUE, libDir |-> JsUndef]

NoCredResult == [ok |-> FALSE, error |-> "pending", credentials |-> NoCredentials]

\* createConnectionConfig not called
NoConnectionConfig == [mode |-> "none", libDir |-> JsUndef]

IdleCred ==
    /\ variant = "v11"
    /\ rawCredentials = [user |-> JsUndef, password |-> JsUndef, connectionString |-> JsUndef,
                         thinMode |-> JsUndef, libDir |-> JsUndef]
    /\ credPc = "done"
    /\ credResult = NoCredResult
    /\ clientInitAttempted = FALSE
    /\ clientInitOutcome = "none"
    /\ connectAttempted = FALSE
    /\ connectionConfig = NoConnectionConfig

NoReturn == [kind |-> "none", success |-> FALSE, error |-> "none",
             totalMessages |-> 0, successfulMessages |-> 0, failedMessages |-> 0]

IdleAQ ==
    /\ aqOp = "none"
    /\ aqPc = "idle"
    /\ aqQueueName = <<>>
    /\ aqConfigAutoCommit = TRUE
    /\ aqOptAutoCommit = "undef"
    /\ aqUseTransaction = FALSE
    /\ aqMessages = <<>>
    /\ aqResults = <<>>
    /\ aqErrors = <<>>
    /\ aqSuccessCount = 0
    /\ aqDriver = <<>>
    /\ aqFinalCommit = "none"
    /\ aqExecuteCalls = 0
    /\ aqCommitCalls = 0
    /\ aqRollbackCalls = 0
    /\ aqReturn = NoReturn

NotResolved == [mode |-> "none", via |-> "none", libPath |-> FALSE, pathOracle |-> FALSE,
                libDir |-> FALSE, detected |-> FALSE]

IdleConn ==
    /\ connMode = "thin"
    /\ initialMode = "thin"
    /\ connLibDir = FALSE
    /\ libDirGiven = FALSE
    /\ autoInstall = FALSE
    /\ detectedConfig = "unset"
    /\ clientInitialized = FALSE
    /\ envLibPath = FALSE
    /\ envPathOracle = FALSE
    /\ posix = TRUE
    /\ detectorPresent = FALSE
    /\ installerPresent = FALSE
    /\ processAlive = TRUE
    /\ connPc = "off"
    /\ connCalls = 0
    /\ connResult = "none"
    /\ initDepth = 0
    /\ resolved = NotResolved
    /\ lastInstall = "none"
    /\ fellBack = FALSE
    /\ initClientCalls = 0
    /\ installerRuns = 0
    /\ driverConnectCalls = 0

IdleFacade ==
    /\ fNode = "none"
    /\ fEntry = "none"
    /\ fPc = "off"
    /\ fOpType = "none"
    /\ fItems = 0
    /\ fItemIndex = 0
    /\ fThick = FALSE
    /\ fConnObtained = FALSE
    /\ fConnOpen = FALSE
    /\ fCloseCalls = 0
    /\ fPending = "none"
    /\ fErrorSource = "none"
    /\ fOutcome = "none"
    /\ txContinueOnError = FALSE
    /\ txStatements = 0
    /\ txIndex = 0
    /\ txFailedAt = 0
    /\ txBeginCalls = 0
    /\ txCommitCalls = 0
    /\ txRollbackCalls = 0
    /\ txCommitted = FALSE
    /\ txLog = <<>>

\* no item yet
NoBulkItem == [reportsSuccess |-> FALSE, rowsProcessed |-> 0, rowsInserted |-> 0, hasErrors |-> FALSE, errors |-> {}]

IdleBulk ==
    /\ bkVariant = "none"
    /\ bkPc = "off"
    /\ bkTableBlank = FALSE
    /\ bkRows = 0
    /\ bkContinueOnError = FALSE
    /\ bkIndex = 0
    /\ bkInserted = 0
    /\ bkErrors = {}
    /\ bkItem = NoBulkItem

\* no credentials object
NoLoggedCredentials == [user |-> "none", password |-> "none", connectionString |-> "none", thinMode |-> "none", libDir |-> "none", configDir |-> "none", errorUrl |-> "none"]

\* nothing returned yet
NotSanitized == [pending |-> TRUE]

IdleSanitize ==
    /\ sanFirst = NoLoggedCredentials
    /\ sanSecond = NoLoggedCredentials
    /\ sanFirstBefore = NoLoggedCredentials
    /\ sanSecondBefore = NoLoggedCredentials
    /\ sanFirstOut = NotSanitized
    /\ sanSecondOut = NotSanitized

IdleVector ==
    /\ vsOperation = "none"
    /\ vsCollectionName = <<>>
    /\ vsInputsValid = FALSE
    /\ vsItems = 0
    /\ vsPc = "off"
    /\ vsNameChecked = FALSE
    /\ vsIndex = 0
    /\ vsExecuted = {}

IdleParams ==
    /\ pmFacade = "none"
    /\ pmRows = <<>>
    /\ pmPc = "off"
    /\ pmIndex = 0
    /\ pmBinds = <<>>
    /\ pmExecuted = FALSE

\* the getConnection calls that run concurrently in the process
ConcurrentCalls == 1 .. MaxConcurrentCalls

\* no concurrent call has been made
NoCallRunning == [c \in ConcurrentCalls |-> "idle"]

\* no concurrent call has started the installer
NoInstallerRun == [c \in ConcurrentCalls |-> 0]

\* options of calls that were never constructed
NoAutoInstall == [c \in ConcurrentCalls |-> FALSE]

\* no error in flight
NoItemError == [kind |-> "none", itemIndex |-> -1, message |-> <<>>]

IdleItems ==
    /\ itVariant = "none"
    /\ itOp = "none"
    /\ itItems = 0
    /\ itContinueOnError = FALSE
    /\ itPc = "off"
    /\ itIndex = 0
    /\ itOffending = -1
    /\ itOriginal = "none"
    /\ itError = NoItemError
    /\ itTableBlank = FALSE
    /\ itInvoked = <<>>
    /\ itBulkInserts = <<>>

IdleConcurrent ==
    /\ ccPc = NoCallRunning
    /\ ccAutoInstall = NoAutoInstall
    /\ ccClientInitialized = FALSE
    /\ ccDriverThick = FALSE
    /\ ccClientOnDisk = FALSE
    /\ ccInstallerRuns = NoInstallerRun
    /\ ccInitSuccesses = 0

-----------------------------------------------------------------------------
(* Credential normalization *)

RawFieldValues == {JsUndef, JsNull} \cup {JsStr(s) : s \in StrUpTo(MaxStrLen)}
RawThinModeValues == {JsUndef, JsBool(TRUE), JsBool(FALSE)}
RawLibDirValues == {JsUndef} \cup {JsStr(s) : s \in StrUpTo(MaxStrLen)}

RawCredentialRecords ==
    [user : RawFieldValues, password : RawFieldValues, connectionString : RawFieldValues,
     thinMode : RawThinModeValues, libDir : RawLibDirValues]

\* typeof x === 'string' on the three required fields
isOracleCredentials(c) ==
    c.user.t = "str" /\ c.password.t = "str" /\ c.connectionString.t = "str"

isThickModeCredentials(c) == c.thinMode = FALSE /\ Truthy(c.libDir)

isThinModeCredentials(c) == c.thinMode # FALSE

\* OracleCredentialsUtils.validateCredentials: [isValid, mode]
validateCredentials(c) ==
    IF ~isOracleCredentials(c) THEN [isValid |-> FALSE, mode |-> "thin"]
    ELSE IF c.thinMode = FALSE /\ ~Truthy(c.libDir) THEN [isValid |-> FALSE, mode |-> "thick"]
    ELSE [isValid |-> TRUE, mode |-> IF c.thinMode = FALSE THEN "thick" ELSE "thin"]

\* rawCredentials.thinMode !== false
ThinModeOf(raw) == ~(raw.thinMode.t = "bool" /\ raw.thinMode.b = FALSE)

\* the credentials record built by the 1.1.0 node: String(x || '').trim()
ShapeV11(raw) ==
    [user |-> JsStr(Trim(StringOf(IF Truthy(raw.user) THEN raw.user ELSE JsStr(<<>>)))),
     password |-> JsStr(StringOf(IF Truthy(raw.password) THEN raw.password ELSE JsStr(<<>>))),
     connectionString |->
        JsStr(Trim(StringOf(IF Truthy(raw.connectionString) THEN raw.connectionString
                            ELSE JsStr(<<>>)))),
     thinMode |-> ThinModeOf(raw),
     libDir |-> IF Truthy(raw.libDir) THEN JsStr(Trim(StringOf(raw.libDir))) ELSE JsUndef]

\* the credentials record built by the 1.0.0 node: String(x)
ShapeV10(raw) ==
    [user |-> JsStr(StringOf(raw.user)),
     password |-> JsStr(StringOf(raw.password)),
     connectionString |-> JsStr(StringOf(raw.connectionString)),
     thinMode |-> ThinModeOf(raw),
     libDir |-> IF Truthy(raw.libDir) THEN JsStr(StringOf(raw.libDir)) ELSE JsUndef]

\* prepareOracleCredentials: shape, validate, throw a plain Error when invalid
prepareOracleCredentials(v, raw) ==
    LET c == IF v = "v11" THEN ShapeV11(raw) ELSE ShapeV10(raw)
    IN  IF validateCredentials(c).isValid
        THEN [ok |-> TRUE, error |-> "none", credentials |-> c]
        ELSE [ok |-> FALSE, error |-> "InvalidCredentials", credentials |-> c]

\* a createConnectionConfig that never answers 'thick'
createConnectionConfigThinOnly(c) == [mode |-> "thin", libDir |-> JsUndef]

\* OracleCredentialsUtils.createConnectionConfig: [mode, libDir]; mode
\* "threw" stands for the Error thrown for thick credentials without libDir
createConnectionConfig(c) ==
    IF c.thinMode = FALSE
    THEN IF ~Truthy(c.libDir) THEN [mode |-> "threw", libDir |-> JsUndef]
         ELSE [mode |-> "thick", libDir |-> c.libDir]
    ELSE [mode |-> "thin", libDir |-> JsUndef]

InitCred ==
    /\ IdleAQ
    /\ IdleConn
    /\ IdleFacade
    /\ IdleBulk
    /\ IdleSanitize
    /\ IdleVector
    /\ IdleParams
    /\ IdleItems
    /\ IdleConcurrent
    /\ variant \in {"v11", "v10"}
    /\ rawCredentials \in RawCredentialRecords
    /\ credPc = "prepare"
    /\ credResult = NoCredResult
    /\ clientInitAttempted = FALSE
    /\ clientInitOutcome = "none"
    /\ connectAttempted = FALSE
    /\ connectionConfig = NoConnectionConfig

\* execute: const credentials = this.prepareOracleCredentials(rawCredentials)
PrepareCredentials ==
    /\ credPc = "prepare"
    /\ credResult' = prepareOracleCredentials(variant, rawCredentials)
    /\ credPc' = IF credResult'.ok THEN "initClient" ELSE "threw"
    /\ UNCHANGED <<variant, rawCredentials, clientInitAttempted, clientInitOutcome,
                   connectAttempted, connectionConfig>>
    /\ CredFrame

\* initializeOracleClient: catch (error) { throw new Error(...) }, whatever the error
InitErrorIsFatal(outcome) == outcome # "ok"

\* execute: await this.initializeOracleClient(credentials). For thick
\* credentials, unless the driver is already in thick mode, initOracleClient
\* is called; it either succeeds or throws (rethrown as a plain Error)
InitializeOracleClient ==
    /\ credPc = "initClient"
    /\ IF isThickModeCredentials(credResult.credentials)
       THEN \E alreadyThick \in BOOLEAN, outcome \in InitClientOutcomes :
                /\ clientInitAttempted' = ~alreadyThick
                /\ clientInitOutcome' = IF alreadyThick THEN "none" ELSE outcome
                /\ credPc' = IF alreadyThick \/ ~InitErrorIsFatal(outcome) THEN "connect"
                              ELSE "threw"
       ELSE /\ clientInitAttempted' = FALSE
            /\ clientInitOutcome' = "none"
            /\ credPc' = "connect"
    /\ UNCHANGED <<variant, rawCredentials, credResult, connectAttempted, connectionConfig>>
    /\ CredFrame

\* execute: connection = await oracleConnection.getConnection()
AcquireConnection ==
    /\ credPc = "connect"
    /\ connectionConfig' = createConnectionConfig(credResult.credentials)
    /\ connectAttempted' = (connectionConfig'.mode # "threw")
    /\ credPc' = IF connectionConfig'.mode # "threw" THEN "done" ELSE "threw"
    /\ UNCHANGED <<variant, rawCredentials, credResult, clientInitAttempted,
                   clientInitOutcome>>
    /\ CredFrame

NextCred == PrepareCredentials \/ InitializeOracleClient \/ AcquireConnection

SpecCred == InitCred /\ [][NextCred]_vars

\* a raw record lacks a required field: undefined, null or empty
MissingField(v) == v.t = "undef" \/ v.t = "null" \/ (v.t = "str" /\ v.s = <<>>)

MissingRequired(raw) ==
    MissingField(raw.user) \/ MissingField(raw.password) \/ MissingField(raw.connectionString)

\* C4 (as claimed): every raw credential record missing user, password or
\* connectionString is rejected by normalization with an invalid-credentials
\* error, and neither client initialisation nor a connection is attempted.
C4_MissingFieldsRejected ==
    (credPc # "prepare" /\ MissingRequired(rawCredentials)) =>
        /\ credResult.error = "InvalidCredentials"
        /\ ~clientInitAttempted
        /\ ~connectAttempted

-----------------------------------------------------------------------------
(* AQOperations *)

\* a queue name may hold at most this many characters
QueueNameMaxLen == 30

Letters == {"Q", "h"}
NameChars == Letters \cup {"1", "_", "$", "#"}

LongQueueName == [i \in 1..(QueueNameMaxLen + 1) |-> "Q"]

QueueNames == {<<>>, <<" ">>, <<"Q">>, <<"1">>, <<"Q", "1">>, <<"Q", "-">>, LongQueueName}

\* the operations of AQOperations that take a queue name
AQOperationNames == {"enqueueBatch", "dequeueMessage", "dequeueMultiple", "getQueueInfo", "purgeQueue", "createQueue"}

\* a validateQueueName without the length test
validateQueueNameAnyLength(q) == q # <<>> /\ Len(Trim(q)) # 0 /\ Head(q) \in Letters /\ \A i \in 2..Len(q) : q[i] \in NameChars

\* validateQueueName: TRUE when it does not throw
validateQueueName(q) ==
    /\ q # <<>>
    /\ Len(Trim(q)) # 0
    /\ Len(q) <= QueueNameMaxLen
    /\ Head(q) \in Letters
    /\ \A i \in 2..Len(q) : q[i] \in NameChars

\* validateMessage: TRUE when it does not throw
validateMessage(m) == m.payload # "undefined"

\* options.autoCommit ?? this.config.autoCommit
mergeAutoCommit(opt, cfg) == IF opt = "undef" THEN cfg ELSE opt = "true"

\* enqueueMessage, given what the driver answers to execute and to commit.
\* Everything after the option merge runs inside try/catch, so it never throws.
enqueueMessage(q, m, opt, cfg, execOk, commitOk) ==
    LET autoCommit == mergeAutoCommit(opt, cfg)
    IN  IF ~validateQueueName(q)
        THEN [success |-> FALSE, error |-> "validation", executes |-> 0, commits |-> 0]
        ELSE IF ~validateMessage(m)
        THEN [success |-> FALSE, error |-> "noPayload", executes |-> 0, commits |-> 0]
        ELSE IF ~execOk
        THEN [success |-> FALSE, error |-> "execute", executes |-> 1, commits |-> 0]
        ELSE IF autoCommit /\ ~commitOk
        THEN [success |-> FALSE, error |-> "commit", executes |-> 1, commits |-> 1]
        ELSE [success |-> TRUE, error |-> "none", executes |-> 1,
              commits |-> IF autoCommit THEN 1 ELSE 0]

\* a slip: the error text carries the 0-based loop index
ErrorPositionZeroBased(i) == i

\* the position enqueueBatch writes into the error text of message i (0-based i)
ErrorPosition(i) == i + 1

\* dequeueMessage, given the driver's answer to execute
\*   "throws"     execute rejects
\*   "noOutBinds" execute resolves without outBinds
\*   "message"    the block set :success := 1
\*   "noMessage"  ORA-25228: :success := 0, :error_msg := 'Nenhuma mensagem ...'
\*   "sqlError"   any other error inside the block: :success := 0, :error_msg := SQLERRM
\* and to commit. The whole body after the option merge is inside try/catch.
DriverDequeueOutcomes == {"throws", "noOutBinds", "message", "noMessage", "sqlError"}

\* a slip: commit whenever autoCommit is on
DequeueCommitsAlways(autoCommit, outcome) == autoCommit

\* opts.autoCommit && outBinds.success === 1
DequeueCommits(autoCommit, outcome) == autoCommit /\ outcome = "message"

dequeueMessage(q, opt, cfg, outcome, commitOk) ==
    LET autoCommit == mergeAutoCommit(opt, cfg)
        caught(e, x, c) == [kind |-> "result", success |-> FALSE, error |-> e,
                            executes |-> x, commits |-> c, dequeued |-> outcome = "message" /\ x = 1]
    IN  IF ~validateQueueName(q) THEN caught("validation", 0, 0)
        ELSE IF outcome = "throws" THEN caught("execute", 1, 0)
        ELSE IF outcome = "noOutBinds" THEN caught("typeError", 1, 0)
        ELSE IF DequeueCommits(autoCommit, outcome) /\ ~commitOk THEN caught("commit", 1, 1)
        ELSE IF outcome = "message"
        THEN [kind |-> "result", success |-> TRUE, error |-> "none", executes |-> 1,
              commits |-> IF DequeueCommits(autoCommit, outcome) THEN 1 ELSE 0,
              dequeued |-> TRUE]
        ELSE [kind |-> "result", success |-> FALSE,
              error |-> IF outcome = "noMessage" THEN "noMessageAvailable" ELSE "sqlerrm",
              executes |-> 1,
              commits |-> IF DequeueCommits(autoCommit, outcome) THEN 1 ELSE 0,
              dequeued |-> FALSE]

MessageLists ==
    UNION {[1..n -> [payload : {"undefined", "text"}]] : n \in 0..MaxMessages}

InitAQ ==
    /\ IdleCred
    /\ IdleConn
    /\ IdleFacade
    /\ IdleBulk
    /\ IdleSanitize
    /\ IdleVector
    /\ IdleParams
    /\ IdleItems
    /\ IdleConcurrent
    /\ aqOp \in AQOperationNames
    /\ aqPc = "start"
    /\ aqQueueName \in QueueNames
    /\ aqConfigAutoCommit \in BOOLEAN
    /\ aqOptAutoCommit \in {"undef", "true", "false"}
    /\ aqUseTransaction = FALSE
    /\ aqMessages \in (IF aqOp = "enqueueBatch" THEN MessageLists ELSE {<<>>})
    /\ aqResults = <<>>
    /\ aqErrors = <<>>
    /\ aqSuccessCount = 0
    /\ aqDriver = <<>>
    /\ aqFinalCommit = "none"
    /\ aqExecuteCalls = 0
    /\ aqCommitCalls = 0
    /\ aqRollbackCalls = 0
    /\ aqReturn = NoReturn

\* enqueueBatch, up to the loop: an empty list throws; without
\* options.autoCommit the batch is one transaction and options.autoCommit is
\* overwritten with false
EnqueueBatchStart ==
    /\ aqOp = "enqueueBatch" /\ aqPc = "start"
    /\ IF Len(aqMessages) = 0
       THEN /\ aqPc' = "threw"
            /\ aqReturn' = [NoReturn EXCEPT !.kind = "threw", !.error = "emptyList"]
            /\ UNCHANGED <<aqUseTransaction, aqOptAutoCommit>>
       ELSE /\ aqPc' = "loop"
            /\ aqUseTransaction' = (aqOptAutoCommit # "true")
            /\ aqOptAutoCommit' = IF aqOptAutoCommit # "true" THEN "false" ELSE aqOptAutoCommit
            /\ UNCHANGED aqReturn
    /\ UNCHANGED <<aqOp, aqQueueName, aqConfigAutoCommit, aqMessages, aqResults, aqErrors,
                   aqSuccessCount, aqDriver, aqFinalCommit, aqExecuteCalls, aqCommitCalls,
                   aqRollbackCalls>>
    /\ AQFrame

\* one iteration of enqueueBatch's for loop (i = Len(aqResults), 0-based)
EnqueueBatchMessage ==
    /\ aqOp = "enqueueBatch" /\ aqPc = "loop"
    /\ Len(aqResults) < Len(aqMessages)
    /\ \E execOk \in BOOLEAN, commitOk \in BOOLEAN :
        LET i == Len(aqResults)
            r == enqueueMessage(aqQueueName, aqMessages[i + 1], aqOptAutoCommit,
                                aqConfigAutoCommit, execOk, commitOk)
        IN  /\ aqResults' = Append(aqResults, [success |-> r.success, error |-> r.error])
            /\ aqSuccessCount' = IF r.success THEN aqSuccessCount + 1 ELSE aqSuccessCount
            /\ aqErrors' = IF r.success THEN aqErrors
                           ELSE Append(aqErrors, [position |-> ErrorPosition(i), text |-> r.error])
            /\ aqDriver' = Append(aqDriver, [executed |-> r.executes = 1,
                                             execOk |-> r.executes = 1 /\ execOk,
                                             committed |-> r.commits = 1,
                                             commitOk |-> r.commits = 1 /\ commitOk])
            /\ aqExecuteCalls' = aqExecuteCalls + r.executes
            /\ aqCommitCalls' = aqCommitCalls + r.commits
            /\ aqPc' = "loop"
    /\ UNCHANGED <<aqOp, aqQueueName, aqConfigAutoCommit, aqOptAutoCommit, aqUseTransaction,
                   aqMessages, aqFinalCommit, aqRollbackCalls, aqReturn>>
    /\ AQFrame

\* the loop is over
EnqueueBatchLoopEnd ==
    /\ aqOp = "enqueueBatch" /\ aqPc = "loop"
    /\ Len(aqResults) = Len(aqMessages)
    /\ aqPc' = "finalCommit"
    /\ UNCHANGED <<aqOp, aqQueueName, aqConfigAutoCommit, aqOptAutoCommit, aqUseTransaction,
                   aqMessages, aqResults, aqErrors, aqSuccessCount, aqDriver, aqFinalCommit,
                   aqExecuteCalls, aqCommitCalls, aqRollbackCalls, aqReturn>>
    /\ AQFrame

BatchResult ==
    [kind |-> "result", success |-> TRUE, error |-> "none",
     totalMessages |-> Len(aqMessages),
     successfulMessages |-> aqSuccessCount,
     failedMessages |-> Len(aqMessages) - aqSuccessCount]

\* enqueueBatch after the loop: the final commit of a transactional batch with
\* at least one success; a failing commit is answered by rollback and rethrown
EnqueueBatchFinish ==
    /\ aqOp = "enqueueBatch" /\ aqPc = "finalCommit"
    /\ IF aqUseTransaction /\ aqSuccessCount > 0
       THEN \E commitOk \in BOOLEAN :
                /\ aqCommitCalls' = aqCommitCalls + 1
                /\ aqFinalCommit' = IF commitOk THEN "ok" ELSE "failed"
                /\ IF commitOk
                   THEN /\ aqReturn' = BatchResult
                        /\ aqPc' = "done"
                        /\ UNCHANGED aqRollbackCalls
                   ELSE /\ aqRollbackCalls' = aqRollbackCalls + 1
                        /\ aqReturn' = [NoReturn EXCEPT !.kind = "threw", !.error = "commit"]
                        /\ aqPc' = "threw"
       ELSE /\ aqReturn' = BatchResult
            /\ aqPc' = "done"
            /\ UNCHANGED <<aqCommitCalls, aqFinalCommit, aqRollbackCalls>>
    /\ UNCHANGED <<aqOp, aqQueueName, aqConfigAutoCommit, aqOptAutoCommit, aqUseTransaction,
                   aqMessages, aqResults, aqErrors, aqSuccessCount, aqDriver, aqExecuteCalls>>
    /\ AQFrame

\* one call of dequeueMessage
DequeueMessage ==
    /\ aqOp = "dequeueMessage" /\ aqPc = "start"
    /\ \E outcome \in DriverDequeueOutcomes, commitOk \in BOOLEAN :
        LET r == dequeueMessage(aqQueueName, aqOptAutoCommit, aqConfigAutoCommit,
                                outcome, commitOk)
        IN  /\ aqReturn' = [NoReturn EXCEPT !.kind = r.kind, !.success = r.success,
                                            !.error = r.error]
            /\ aqDriver' = <<[executed |-> r.executes = 1, outcome |-> outcome,
                              dequeued |-> r.dequeued,
                              committed |-> r.commits = 1,
                              commitOk |-> r.commits = 1 /\ commitOk]>>
            /\ aqExecuteCalls' = aqExecuteCalls + r.executes
            /\ aqCommitCalls' = aqCommitCalls + r.commits
            /\ aqPc' = IF r.kind = "threw" THEN "threw" ELSE "done"
    /\ UNCHANGED <<aqOp, aqQueueName, aqConfigAutoCommit, aqOptAutoCommit, aqUseTransaction,
                   aqMessages, aqResults, aqErrors, aqSuccessCount, aqFinalCommit,
                   aqRollbackCalls>>
    /\ AQFrame

\* one iteration of dequeueMultiple's while loop, with maxMessages =
\* MaxMessages: the loop goes on after a message and returns after the first
\* call without one or when maxMessages were received
DequeueMultiple ==
    /\ aqOp = "dequeueMultiple" /\ aqPc \in {"start", "loop"}
    /\ \E outcome \in DriverDequeueOutcomes, commitOk \in BOOLEAN :
        LET r == dequeueMessage(aqQueueName, aqOptAutoCommit, aqConfigAutoCommit,
                                outcome, commitOk)
            received == IF r.success THEN aqSuccessCount + 1 ELSE aqSuccessCount
            goesOn == r.success /\ received < MaxMessages
        IN  /\ aqResults' = Append(aqResults, [success |-> r.success, error |-> r.error])
            /\ aqSuccessCount' = received
            /\ aqErrors' = IF r.success \/ r.error = "noMessageAvailable" THEN aqErrors
                           ELSE Append(aqErrors, [position |-> Len(aqResults) + 1,
                                                  text |-> r.error])
            /\ aqDriver' = Append(aqDriver, [executed |-> r.executes = 1, outcome |-> outcome,
                                             dequeued |-> r.dequeued,
                                             committed |-> r.commits = 1,
                                             commitOk |-> r.commits = 1 /\ commitOk])
            /\ aqExecuteCalls' = aqExecuteCalls + r.executes
            /\ aqCommitCalls' = aqCommitCalls + r.commits
            /\ aqPc' = IF goesOn THEN "loop" ELSE "done"
            /\ aqReturn' = IF goesOn THEN aqReturn
                           ELSE [kind |-> "result", success |-> TRUE, error |-> "none",
                                 totalMessages |-> received,
                                 successfulMessages |-> received,
                                 failedMessages |-> Len(aqResults) + 1 - received]
    /\ UNCHANGED <<aqOp, aqQueueName, aqConfigAutoCommit, aqOptAutoCommit, aqUseTransaction,
                   aqMessages, aqFinalCommit, aqRollbackCalls>>
    /\ AQFrame

\* what the driver answers to the one statement of getQueueInfo, purgeQueue
\* or createQueue: execute rejects, the statement reports success (a row, or
\* :result = 'SUCCESS'), or it reports none
DriverAdminOutcomes == {"throws", "success", "noSuccess"}

\* getQueueInfo, purgeQueue and createQueue: the names are validated, then one
\* statement is executed; every failure is rethrown by the catch block
queueAdminCall(op, q, table, outcome) ==
    IF ~validateQueueName(q) \/ (op = "createQueue" /\ ~validateQueueName(table))
    THEN [kind |-> "threw", error |-> "validation", executes |-> 0]
    ELSE IF outcome = "throws" THEN [kind |-> "threw", error |-> "execute", executes |-> 1]
    ELSE IF outcome = "noSuccess" THEN [kind |-> "threw", error |-> "noSuccess", executes |-> 1]
    ELSE [kind |-> "result", error |-> "none", executes |-> 1]

\* one call of getQueueInfo, purgeQueue or createQueue
QueueAdminOperation ==
    /\ aqOp \in {"getQueueInfo", "purgeQueue", "createQueue"} /\ aqPc = "start"
    /\ \E table \in QueueNames, outcome \in DriverAdminOutcomes :
        LET r == queueAdminCall(aqOp, aqQueueName, table, outcome)
        IN  /\ aqReturn' = [NoReturn EXCEPT !.kind = r.kind, !.success = r.kind = "result",
                                            !.error = r.error]
            /\ aqDriver' = <<[executed |-> r.executes = 1,
                              execOk |-> r.executes = 1 /\ outcome # "throws",
                              committed |-> FALSE, commitOk |-> FALSE]>>
            /\ aqExecuteCalls' = aqExecuteCalls + r.executes
            /\ aqPc' = IF r.kind = "threw" THEN "threw" ELSE "done"
    /\ UNCHANGED <<aqOp, aqQueueName, aqConfigAutoCommit, aqOptAutoCommit, aqUseTransaction,
                   aqMessages, aqResults, aqErrors, aqSuccessCount, aqFinalCommit,
                   aqCommitCalls, aqRollbackCalls>>
    /\ AQFrame

NextAQ ==
    \/ EnqueueBatchStart
    \/ EnqueueBatchMessage
    \/ EnqueueBatchLoopEnd
    \/ EnqueueBatchFinish
    \/ DequeueMessage
    \/ DequeueMultiple
    \/ QueueAdminOperation

SpecAQ == InitAQ /\ [][NextAQ]_vars

\* the positions (1-based) of the attempted messages that were malformed or
\* whose enqueue failed at the driver
FailedPositions ==
    {i \in 1..Len(aqDriver) :
        \/ ~validateQueueName(aqQueueName)
        \/ aqMessages[i].payload = "undefined"
        \/ aqDriver[i].executed /\ ~aqDriver[i].execOk
        \/ aqDriver[i].committed /\ ~aqDriver[i].commitOk}

BatchFinished == aqOp = "enqueueBatch" /\ aqPc \in {"done", "threw"} /\ Len(aqMessages) > 0

ReportsOneFailureAt(k) ==
    /\ Len(aqResults) = Len(aqMessages)
    /\ Len(aqErrors) = 1
    /\ aqErrors[1].position = k

CountsOneFailure ==
    /\ aqPc = "done"
    /\ aqReturn.kind = "result"
    /\ aqReturn.totalMessages = Len(aqMessages)
    /\ aqReturn.successfulMessages = Len(aqMessages) - 1
    /\ aqReturn.failedMessages = 1

C10_DequeueNeverThrows ==
    (aqOp = "dequeueMessage" /\ aqPc # "start") =>
        /\ aqPc = "done"
        /\ aqReturn.kind = "result"
        /\ (aqDriver[1].executed /\ aqDriver[1].outcome = "noMessage") =>
              (~aqReturn.success /\ aqReturn.error = "noMessageAvailable")
        /\ ~(aqDriver[1].executed /\ aqDriver[1].outcome = "message") => aqCommitCalls = 0
        /\ aqRollbackCalls = 0

\* a dequeue with autoCommit on found the queue empty
C10_Witness ==
    /\ aqOp = "dequeueMessage" /\ aqPc = "done"
    /\ mergeAutoCommit(aqOptAutoCommit, aqConfigAutoCommit)
    /\ aqDriver[1].executed /\ aqDriver[1].outcome = "noMessage"
    /\ aqReturn.error = "noMessageAvailable"

\* C21 (as claimed): an instance configured with autoCommit = false
\* (createReliableOperator) never calls connection.commit unless the caller
\* passed autoCommit: true in the options of the call.
C21_ManualControlNeverCommits ==
    (~aqConfigAutoCommit /\ aqOptAutoCommit # "true") => aqCommitCalls = 0

\* ^[A-Za-z][A-Za-z0-9_$#]*$
MatchesQueueNamePattern(q) == q # <<>> /\ Head(q) \in Letters /\ \A i \in 2..Len(q) : q[i] \in NameChars

\* a queue name that is empty, longer than 30 characters or off the pattern
UnacceptableQueueName(q) == q = <<>> \/ Len(q) > QueueNameMaxLen \/ ~MatchesQueueNamePattern(q)

\* the call has ended and told its caller of a failure: a thrown error, a
\* failed result, or a batch result in which every attempted message failed
FailureReported ==
    \/ aqPc = "threw" /\ aqReturn.kind = "threw"
    \/ aqPc = "done" /\ aqOp = "dequeueMessage" /\ ~aqReturn.success
    \/ /\ aqPc = "done" /\ aqOp \in {"enqueueBatch", "dequeueMultiple"}
       /\ aqReturn.successfulMessages = 0
       /\ aqResults # <<>> /\ \A i \in 1 .. Len(aqResults) : ~aqResults[i].success

\* C28: no operation of AQOperations calls connection.execute or
\* connection.commit with a queue name that is empty, longer than 30
\* characters or off the pattern ^[A-Za-z][A-Za-z0-9_$#]*$; the failed
\* validation is reported as a failed result or a thrown error and the
\* connection is not touched.
C28_UnacceptableNameNeverReachesConnection ==
    UnacceptableQueueName(aqQueueName) =>
        /\ aqExecuteCalls = 0 /\ aqCommitCalls = 0 /\ aqRollbackCalls = 0
        /\ \A i \in 1 .. Len(aqDriver) : ~aqDriver[i].executed /\ ~aqDriver[i].committed
        /\ aqPc \in {"done", "threw"} => FailureReported

\* purgeQueue was called with a name of 31 characters: it threw and the
\* connection was not used
C28_Witness ==
    /\ aqOp = "purgeQueue" /\ aqQueueName = LongQueueName /\ aqPc = "threw"
    /\ aqReturn.error = "validation"
    /\ aqDriver # <<>> /\ ~aqDriver[1].executed
    /\ aqExecuteCalls = 0 /\ aqCommitCalls = 0

-----------------------------------------------------------------------------
(* OracleConnection: mode resolution and getConnection *)

\* installer.run(): it found a client and returns {found, path, type} (no
\* libDir), or it installed one and returns the generated config (with
\* libDir), or a step failed and its catch block calls process.exit(1)
InstallerRunOutcomes == {"existing", "installed", "exit"}

\* detectBestMode
detectBestMode(libPath, pathOracle, libDir) ==
    IF libPath \/ pathOracle \/ libDir THEN "thick" ELSE "thin"

\* OracleClientDetector.ensureOracleClient, given the first detection, the
\* installer's outcome and the detection after an installation
ensureOracleClient(available, instPresent, runOutcome, availableAfter) ==
    IF available THEN [exit |-> FALSE, available |-> TRUE, ran |-> "none"]
    ELSE IF ~instPresent THEN [exit |-> FALSE, available |-> FALSE, ran |-> "missingModule"]
    ELSE IF runOutcome = "exit" THEN [exit |-> TRUE, available |-> FALSE, ran |-> "failed"]
    ELSE [exit |-> FALSE, available |-> availableAfter, ran |-> runOutcome]

\* the mode getOracleClientConfig answers
HelperMode(available, forceThickMode) == IF available /\ forceThickMode THEN "thick" ELSE "thin"

\* getOracleClientConfig({autoInstall, forceThickMode, throwOnMissing: false})
getOracleClientConfig(autoInst, forceThickMode, available, instPresent, run, after) ==
    LET d == IF autoInst
             THEN ensureOracleClient(available, instPresent, run, after)
             ELSE [exit |-> FALSE, available |-> available, ran |-> "none"]
    IN  [exit |-> d.exit,
         mode |-> HelperMode(d.available, forceThickMode),
         libDir |-> d.available,
         available |-> d.available,
         ran |-> d.ran]

\* a variant in which the detected mode overwrites any configured mode
AdoptDetectedModeAlways(current, detected) == detected

\* autoDetectOracleClient: if (this.connectionConfig.mode === 'auto') mode = config.mode
AdoptDetectedMode(current, detected) == IF current = "auto" THEN detected ELSE current

\* getConnectionInfo().mode
getConnectionInfoMode == connMode

InitConn ==
    /\ IdleCred
    /\ IdleAQ
    /\ IdleFacade
    /\ IdleBulk
    /\ IdleSanitize
    /\ IdleVector
    /\ IdleParams
    /\ IdleItems
    /\ IdleConcurrent
    /\ initialMode \in {"auto", "thin", "thick"}
    /\ connMode = initialMode
    /\ libDirGiven \in BOOLEAN
    /\ connLibDir = libDirGiven
    /\ autoInstall \in BOOLEAN
    /\ detectedConfig = "unset"
    /\ clientInitialized \in BOOLEAN
    /\ envLibPath \in BOOLEAN
    /\ envPathOracle \in BOOLEAN
    /\ posix \in BOOLEAN
    /\ detectorPresent \in BOOLEAN
    /\ installerPresent \in BOOLEAN
    /\ processAlive = TRUE
    /\ connPc = "idle"
    /\ connCalls = 0
    /\ connResult = "none"
    /\ initDepth = 0
    /\ resolved = NotResolved
    /\ lastInstall = "none"
    /\ fellBack = FALSE
    /\ initClientCalls = 0
    /\ installerRuns = 0
    /\ driverConnectCalls = 0

\* the variables no step of getConnection writes
ConnConstants == <<initialMode, libDirGiven, autoInstall, posix, detectorPresent,
                   installerPresent>>

\* a caller invokes getConnection()
GetConnectionBegin ==
    /\ connPc = "idle" /\ processAlive /\ connCalls < MaxCalls
    /\ connPc' = "detect"
    /\ connCalls' = connCalls + 1
    /\ connResult' = "none"
    /\ initDepth' = 0
    /\ initClientCalls' = 0
    /\ installerRuns' = 0
    /\ driverConnectCalls' = 0
    /\ UNCHANGED <<connMode, connLibDir, detectedConfig, clientInitialized, envLibPath,
                   envPathOracle, processAlive, resolved, lastInstall, fellBack,
                   ConnConstants>>
    /\ ConnFrame

\* autoDetectOracleClient: already detected
AutoDetectCached ==
    /\ connPc = "detect" /\ detectedConfig # "unset"
    /\ connPc' = "configure"
    /\ UNCHANGED <<connMode, connLibDir, detectedConfig, clientInitialized, envLibPath,
                   envPathOracle, processAlive, connCalls, connResult, initDepth, resolved,
                   lastInstall, fellBack, initClientCalls, installerRuns, driverConnectCalls,
                   ConnConstants>>
    /\ ConnFrame

\* autoDetectOracleClient: the helper module cannot be loaded, fallbackDetection runs
AutoDetectFallback ==
    /\ connPc = "detect" /\ detectedConfig = "unset" /\ ~detectorPresent
    /\ connMode' = AdoptDetectedMode(connMode,
                                     detectBestMode(envLibPath, envPathOracle, connLibDir))
    /\ detectedConfig' = "fallback"
    /\ resolved' = [mode |-> connMode', via |-> "fallback", libPath |-> envLibPath,
                    pathOracle |-> envPathOracle, libDir |-> connLibDir,
                    detected |-> (detectBestMode(envLibPath, envPathOracle, connLibDir) = "thick")]
    /\ connPc' = "configure"
    /\ UNCHANGED <<connLibDir, clientInitialized, envLibPath, envPathOracle, processAlive,
                   connCalls, connResult, initDepth, lastInstall, fellBack, initClientCalls,
                   installerRuns, driverConnectCalls, ConnConstants>>
    /\ ConnFrame

\* autoDetectOracleClient: the helper answers (or its installer ends the process)
AutoDetectHelper ==
    /\ connPc = "detect" /\ detectedConfig = "unset" /\ detectorPresent
    /\ \E available \in BOOLEAN, runOutcome \in InstallerRunOutcomes, availableAfter \in BOOLEAN :
        LET config == getOracleClientConfig(autoInstall, connMode = "thick", available,
                                            installerPresent, runOutcome, availableAfter)
        IN  /\ lastInstall' = IF config.ran = "none" THEN lastInstall ELSE config.ran
            /\ installerRuns' = IF config.ran \in {"none", "missingModule"} THEN installerRuns
                                ELSE installerRuns + 1
            /\ IF config.exit
               THEN /\ processAlive' = FALSE
                    /\ connPc' = "exited"
                    /\ UNCHANGED <<connMode, connLibDir, detectedConfig, envLibPath, resolved>>
               ELSE /\ connMode' = AdoptDetectedMode(connMode, config.mode)
                    /\ connLibDir' = (connLibDir \/ config.libDir)
                    /\ detectedConfig' = "helper"
                    /\ envLibPath' = (envLibPath \/ (config.available /\ posix)
                                      \/ (config.ran = "installed" /\ posix))
                    /\ resolved' = [mode |-> connMode', via |-> "helper",
                                    libPath |-> envLibPath, pathOracle |-> envPathOracle,
                                    libDir |-> connLibDir, detected |-> config.available]
                    /\ connPc' = "configure"
                    /\ UNCHANGED processAlive
    /\ UNCHANGED <<clientInitialized, envPathOracle, connCalls, connResult, initDepth,
                   fellBack, initClientCalls, driverConnectCalls, ConnConstants>>
    /\ ConnFrame

\* configureConnectionMode after detection
ConfigureConnectionMode ==
    /\ connPc = "configure"
    /\ connPc' = IF connMode = "thick" /\ ~clientInitialized THEN "initThick" ELSE "connect"
    /\ UNCHANGED <<connMode, connLibDir, detectedConfig, clientInitialized, envLibPath,
                   envPathOracle, processAlive, connCalls, connResult, initDepth, resolved,
                   lastInstall, fellBack, initClientCalls, installerRuns, driverConnectCalls,
                   ConnConstants>>
    /\ ConnFrame

\* initializeThickClient: one call of oracledb.initOracleClient and its handling.
\* An error thrown at depth 0 reaches getConnection's catch, which throws an
\* Error; thrown inside tryAutoInstall it reaches tryAutoInstall's catch.
InitializeThickClient ==
    /\ connPc = "initThick"
    /\ \E outcome \in InitClientOutcomes :
        /\ (outcome = "DPI-1047" /\ autoInstall) => initDepth < MaxInitDepth
        /\ initClientCalls' = initClientCalls + 1
        /\ CASE outcome \in {"ok", "DPI-1072"} ->
                    /\ clientInitialized' = TRUE
                    /\ connPc' = "connect"
                    /\ UNCHANGED <<connMode, connResult, fellBack>>
             [] outcome = "DPI-1047" /\ autoInstall ->
                    /\ connPc' = "autoInstall"
                    /\ UNCHANGED <<connMode, connResult, fellBack, clientInitialized>>
             [] initDepth > 0 /\ ~(outcome = "DPI-1047" /\ autoInstall)
                              /\ outcome \notin {"ok", "DPI-1072"} ->
                    /\ connMode' = "thin"
                    /\ fellBack' = TRUE
                    /\ connPc' = "connect"
                    /\ UNCHANGED <<connResult, clientInitialized>>
             [] OTHER ->
                    /\ connResult' = "error"
                    /\ connPc' = "idle"
                    /\ UNCHANGED <<connMode, fellBack, clientInitialized>>
    /\ UNCHANGED <<connLibDir, detectedConfig, envLibPath, envPathOracle, processAlive,
                   connCalls, initDepth, resolved, lastInstall, installerRuns,
                   driverConnectCalls, ConnConstants>>
    /\ ConnFrame

\* tryAutoInstall
TryAutoInstall ==
    /\ connPc = "autoInstall"
    /\ IF ~installerPresent
       THEN \* require throws: the catch block falls back to thin mode
            /\ connMode' = "thin"
            /\ fellBack' = TRUE
            /\ lastInstall' = "missingModule"
            /\ connPc' = "connect"
            /\ UNCHANGED <<connLibDir, envLibPath, processAlive, initDepth, installerRuns>>
       ELSE \E runOutcome \in InstallerRunOutcomes :
            /\ installerRuns' = installerRuns + 1
            /\ CASE runOutcome = "exit" ->
                        /\ processAlive' = FALSE
                        /\ lastInstall' = "failed"
                        /\ connPc' = "exited"
                        /\ UNCHANGED <<connMode, fellBack, connLibDir, envLibPath, initDepth>>
                 [] runOutcome = "existing" ->
                        \* result.libDir is undefined: nothing more is done
                        /\ lastInstall' = "existing"
                        /\ connPc' = "connect"
                        /\ UNCHANGED <<connMode, fellBack, connLibDir, envLibPath, initDepth,
                                       processAlive>>
                 [] OTHER ->
                        /\ lastInstall' = "installed"
                        /\ connLibDir' = TRUE
                        /\ envLibPath' = (envLibPath \/ posix)
                        /\ initDepth' = initDepth + 1
                        /\ connPc' = "initThick"
                        /\ UNCHANGED <<connMode, fellBack, processAlive>>
    /\ UNCHANGED <<detectedConfig, clientInitialized, envPathOracle, connCalls, connResult,
                   resolved, initClientCalls, driverConnectCalls, ConnConstants>>
    /\ ConnFrame

\* a getConnection that calls the driver again after a failed attempt
DriverGetConnectionRetrying ==
    /\ connPc = "connect" /\ driverConnectCalls <= MaxCalls
    /\ driverConnectCalls' = driverConnectCalls + 1
    /\ \E ok \in BOOLEAN :
        /\ connResult' = IF ok THEN "connection" ELSE "error"
        /\ connPc' = IF ok THEN "idle" ELSE "connect"
    /\ UNCHANGED <<connMode, connLibDir, detectedConfig, clientInitialized, envLibPath,
                   envPathOracle, processAlive, connCalls, initDepth, resolved, lastInstall,
                   fellBack, initClientCalls, installerRuns, ConnConstants>>
    /\ ConnFrame

\* oracledb.getConnection(this.databaseConfig): a connection, or an error that
\* getConnection rethrows as an Error
DriverGetConnection ==
    /\ connPc = "connect"
    /\ driverConnectCalls' = driverConnectCalls + 1
    /\ \E ok \in BOOLEAN : connResult' = IF ok THEN "connection" ELSE "error"
    /\ connPc' = "idle"
    /\ UNCHANGED <<connMode, connLibDir, detectedConfig, clientInitialized, envLibPath,
                   envPathOracle, processAlive, connCalls, initDepth, resolved, lastInstall,
                   fellBack, initClientCalls, installerRuns, ConnConstants>>
    /\ ConnFrame

NextConn ==
    \/ GetConnectionBegin
    \/ AutoDetectCached
    \/ AutoDetectFallback
    \/ AutoDetectHelper
    \/ ConfigureConnectionMode
    \/ InitializeThickClient
    \/ TryAutoInstall
    \/ DriverGetConnection

SpecConn == InitConn /\ [][NextConn]_vars

SignalsAtDetection == resolved.libPath \/ resolved.pathOracle \/ resolved.libDir

\* C5 (as claimed): with mode 'auto', the resolved mode is 'thick' exactly when
\* a library-path variable is set, PATH mentions oracle, or a libDir was
\* given; through the detector helper and through the manual fallback alike.
C5_AutoResolvesBySignals ==
    (initialMode = "auto" /\ resolved.mode # "none") =>
        (resolved.mode = "thick" <=> SignalsAtDetection)

C7_InstallFailureKeepsProcessAlive ==
    lastInstall = "failed" =>
        /\ processAlive
        /\ connPc # "exited"
        /\ connPc = "idle" => (connMode = "thin" /\ connResult \in {"connection", "error"})

\* C24 (as claimed): whenever getConnection hands out a connection while
\* the mode is 'thick', the thick client has been initialised
\* (OracleConnection.clientInitialized is true).
C24_ThickConnectionIsInitialised ==
    (connPc = "idle" /\ connResult = "connection" /\ connMode = "thick") => clientInitialized

-----------------------------------------------------------------------------
(* Node facades: execute, testConnection, getSchemaInfo *)

\* the entry points that are run
FacadeRuns ==
    {<<"AdvancedV11", "execute">>, <<"AdvancedV10", "execute">>, <<"Basic", "execute">>,
     <<"Vector", "execute">>, <<"AdvancedV11", "testConnection">>,
     <<"AdvancedV11", "getSchemaInfo">>, <<"OracleConnection", "testConnection">>}

\* values of the operation parameter: an orchestrator call, a bulk call, a
\* transaction, a value the switch has no case for
OperationTypesOf(node) ==
    CASE node \in {"AdvancedV11", "AdvancedV10"} -> {"query", "bulk", "transaction", "unknown"}
      [] node = "Vector" -> {"query", "unknown"}
      [] OTHER -> {"query"}

VariantOf(node) == IF node = "AdvancedV11" THEN "v11" ELSE "v10"

\* OracleVectorStore.execute: !credentials.user || !credentials.password || !credentials.connectionString
VectorCredentialsComplete(raw) ==
    Truthy(raw.user) /\ Truthy(raw.password) /\ Truthy(raw.connectionString)

\* the error an item's catch block passes on: the 1.1.0 item loop wraps every
\* error in a NodeOperationError, the other facades have no item loop
ItemError(node, kind) == IF node = "AdvancedV11" THEN "NodeOperationError" ELSE kind

\* the error the outer catch block throws: a NodeOperationError, rethrown or new
OuterCatch(node, kind) == "NodeOperationError"

\* a transaction that never stops at a failing statement
StopOnErrorNever(node, continueOnError) == FALSE

\* the stopOnError option executeTransaction hands to executeBatch
StopOnError(node, continueOnError) ==
    IF node = "AdvancedV11" THEN ~continueOnError ELSE TRUE

\* a cleanup that runs only when nothing was thrown
ClosesOnSuccessOnly(obtained, failed) == obtained /\ ~failed

\* finally { if (connection) await connection.close() }
ClosesInFinally(obtained, failed) == obtained

\* OracleDatabaseAdvanced.testConnection / getSchemaInfo: everything sits in
\* one try whose catch returns false / []; close follows the probe, no finally
AdvancedProbe(prepared, clientOk, connOk, execOk, closeOk) ==
    IF ~(prepared /\ clientOk /\ connOk)
    THEN [obtained |-> FALSE, closeCalls |-> 0, open |-> FALSE, ok |-> FALSE]
    ELSE IF ~execOk
    THEN [obtained |-> TRUE, closeCalls |-> 0, open |-> TRUE, ok |-> FALSE]
    ELSE [obtained |-> TRUE, closeCalls |-> 1, open |-> ~closeOk, ok |-> closeOk]

\* OracleConnection.testConnection: close after the probe, and close in the
\* inner catch (which also catches a failing first close)
ConnectionProbe(connOk, execOk, closeOk, closeAgainOk) ==
    IF ~connOk
    THEN [obtained |-> FALSE, closeCalls |-> 0, open |-> FALSE, ok |-> FALSE]
    ELSE IF ~execOk
    THEN [obtained |-> TRUE, closeCalls |-> 1, open |-> ~closeOk, ok |-> FALSE]
    ELSE IF closeOk
    THEN [obtained |-> TRUE, closeCalls |-> 1, open |-> FALSE, ok |-> TRUE]
    ELSE [obtained |-> TRUE, closeCalls |-> 2, open |-> ~closeAgainOk, ok |-> FALSE]

InitFacade ==
    /\ IdleCred
    /\ IdleAQ
    /\ IdleConn
    /\ IdleBulk
    /\ IdleSanitize
    /\ IdleVector
    /\ IdleParams
    /\ IdleItems
    /\ IdleConcurrent
    /\ \E run \in FacadeRuns : fNode = run[1] /\ fEntry = run[2]
    /\ fPc = "start"
    /\ fOpType \in (IF fEntry = "execute" THEN OperationTypesOf(fNode) ELSE {"query"})
    /\ fItems \in (IF fEntry = "execute" /\ fNode = "AdvancedV11" THEN 0..MaxItems ELSE {1})
    /\ fItemIndex = 0
    /\ fThick = FALSE
    /\ fConnObtained = FALSE
    /\ fConnOpen = FALSE
    /\ fCloseCalls = 0
    /\ fPending = "none"
    /\ fErrorSource = "none"
    /\ fOutcome = "none"
    /\ txContinueOnError \in (IF fOpType = "transaction" THEN BOOLEAN ELSE {FALSE})
    /\ txStatements \in (IF fOpType = "transaction" THEN 0..MaxStatements ELSE {0})
    /\ txIndex = 0
    /\ txFailedAt = 0
    /\ txBeginCalls = 0
    /\ txCommitCalls = 0
    /\ txRollbackCalls = 0
    /\ txCommitted = FALSE
    /\ txLog = <<>>

FacadeParams == <<fNode, fEntry, fOpType, fItems, txContinueOnError, txStatements>>

TxCounters == <<txIndex, txFailedAt, txBeginCalls, txCommitCalls, txRollbackCalls, txCommitted, txLog>>

\* the state of the transaction in hand: Idle -> Begun -> {Committed | RolledBack}
txState == IF txLog = <<>> THEN "Idle" ELSE txLog[Len(txLog)].state

\* the transaction in hand moves to another state
TxMoves(state) == txLog' = [txLog EXCEPT ![Len(txLog)].state = state]

FacadeConn == <<fConnObtained, fConnOpen, fCloseCalls>>

\* an error thrown outside the try block leaves execute as it is
Escape(kind, source) ==
    /\ fOutcome' = kind
    /\ fErrorSource' = source
    /\ fPc' = "done"
    /\ UNCHANGED fPending

\* an error thrown inside the try block travels to the outer catch
Raise(kind, source) ==
    /\ fPending' = kind
    /\ fErrorSource' = source
    /\ fPc' = "catch"
    /\ UNCHANGED fOutcome

\* execute: read and shape the credentials (before the try block)
FacadePrepareCredentials ==
    /\ fEntry = "execute" /\ fPc = "start"
    /\ CASE fNode \in {"AdvancedV11", "AdvancedV10"} ->
                \E raw \in RawCredentialRecords :
                    LET r == prepareOracleCredentials(VariantOf(fNode), raw)
                    IN  IF r.ok
                        THEN /\ fThick' = isThickModeCredentials(r.credentials)
                             /\ fPc' = "initClient"
                             /\ UNCHANGED <<fOutcome, fErrorSource, fPending>>
                        ELSE /\ Escape("Error", "credentials")
                             /\ UNCHANGED fThick
         [] fNode = "Vector" ->
                \E raw \in RawCredentialRecords :
                    /\ IF VectorCredentialsComplete(raw)
                       THEN /\ fPc' = "getConnection"
                            /\ UNCHANGED <<fOutcome, fErrorSource, fPending>>
                       ELSE Escape("NodeOperationError", "credentials")
                    /\ UNCHANGED fThick
         [] OTHER ->
                /\ fPc' = "getConnection"
                /\ UNCHANGED <<fOutcome, fErrorSource, fPending, fThick>>
    /\ UNCHANGED <<FacadeParams, TxCounters, FacadeConn, fItemIndex>>
    /\ FacadeFrame

\* execute: await this.initializeOracleClient(credentials) (before the try block)
FacadeInitializeOracleClient ==
    /\ fPc = "initClient"
    /\ \E alreadyThick \in BOOLEAN, initOk \in BOOLEAN :
        IF fThick /\ ~alreadyThick /\ ~initOk
        THEN Escape("Error", "initClient")
        ELSE /\ fPc' = "getConnection"
             /\ UNCHANGED <<fOutcome, fErrorSource, fPending>>
    /\ UNCHANGED <<FacadeParams, TxCounters, FacadeConn, fItemIndex, fThick>>
    /\ FacadeFrame

\* execute: obtain the connection; inside the try block except in the basic node
FacadeGetConnection ==
    /\ fPc = "getConnection"
    /\ \E ok \in BOOLEAN :
        IF ok
        THEN /\ fConnObtained' = TRUE
             /\ fConnOpen' = TRUE
             /\ fPc' = "dispatch"
             /\ UNCHANGED <<fOutcome, fErrorSource, fPending>>
        ELSE /\ IF fNode = "Basic"
                THEN Escape("Error", "getConnection")
                ELSE Raise("Error", "getConnection")
             /\ UNCHANGED <<fConnObtained, fConnOpen>>
    /\ UNCHANGED <<FacadeParams, TxCounters, fCloseCalls, fItemIndex, fThick>>
    /\ FacadeFrame

\* execute: the switch on the operation, once per item in the 1.1.0 node
FacadeDispatch ==
    /\ fPc = "dispatch"
    /\ IF fNode = "AdvancedV11" /\ fItemIndex >= fItems
       THEN /\ fPc' = "finally"
            /\ UNCHANGED <<fOutcome, fErrorSource, fPending, fItemIndex>>
       ELSE CASE fOpType = "transaction" ->
                    /\ fPc' = "txBegin"
                    /\ UNCHANGED <<fOutcome, fErrorSource, fPending, fItemIndex>>
              [] fOpType = "unknown" ->
                    /\ Raise(IF fNode = "Vector" THEN "NodeOperationError"
                             ELSE ItemError(fNode, "Error"), "unsupported")
                    /\ UNCHANGED fItemIndex
              [] OTHER ->
                    \E ok \in BOOLEAN :
                        IF ok
                        THEN /\ fItemIndex' = fItemIndex + 1
                             /\ fPc' = IF fNode = "AdvancedV11" /\ fOpType # "bulk"
                                       THEN "dispatch" ELSE "finally"
                             /\ UNCHANGED <<fOutcome, fErrorSource, fPending>>
                        ELSE /\ Raise(ItemError(fNode, "Error"), "orchestrator")
                             /\ UNCHANGED fItemIndex
    /\ UNCHANGED <<FacadeParams, TxCounters, FacadeConn, fThick>>
    /\ FacadeFrame
\* executeTransaction up to the try block: the empty-statement check of the
\* 1.1.0 node, beginTransaction, and the split of the block into statements
TxBegin ==
    /\ fPc = "txBegin"
    /\ txIndex' = 0
    /\ txFailedAt' = 0
    /\ txCommitCalls' = 0
    /\ txRollbackCalls' = 0
    /\ txCommitted' = FALSE
    /\ \E blank \in BOOLEAN, beginOk \in BOOLEAN :
        IF fNode = "AdvancedV11" /\ txStatements = 0 /\ blank
        THEN /\ txBeginCalls' = 0
             /\ UNCHANGED txLog
             /\ Raise(ItemError(fNode, "Error"), "transaction")
        ELSE /\ txBeginCalls' = 1
             /\ IF ~beginOk
                THEN /\ UNCHANGED txLog
                     /\ Raise(ItemError(fNode, "Error"), "transaction")
                ELSE /\ txLog' = Append(txLog, [item |-> fItemIndex, state |-> "Begun",
                                                rollback |-> "none"])
                     /\ fPc' = IF fNode = "AdvancedV11" /\ txStatements = 0
                               THEN "txRollback" ELSE "txBatch"
                     /\ fErrorSource' = IF fNode = "AdvancedV11" /\ txStatements = 0
                                        THEN "transaction" ELSE fErrorSource
                     /\ UNCHANGED <<fOutcome, fPending>>
    /\ UNCHANGED <<FacadeParams, FacadeConn, fItemIndex, fThick>>
    /\ FacadeFrame

\* txManager.executeBatch: the next statement of the batch; a failing statement
\* ends the batch with an error when stopOnError is set, the manager having
\* rolled the transaction back
TxExecuteStatement ==
    /\ fPc = "txBatch" /\ txIndex < txStatements
    /\ txIndex' = txIndex + 1
    /\ \E ok \in BOOLEAN :
        IF ok
        THEN UNCHANGED <<txFailedAt, fPc, fErrorSource, txLog>>
        ELSE /\ txFailedAt' = IF txFailedAt = 0 THEN txIndex + 1 ELSE txFailedAt
             /\ IF StopOnError(fNode, txContinueOnError) THEN TxMoves("RolledBack")
                ELSE UNCHANGED txLog
             /\ fPc' = IF StopOnError(fNode, txContinueOnError) THEN "txRollback" ELSE fPc
             /\ fErrorSource' = IF StopOnError(fNode, txContinueOnError) THEN "transaction"
                                ELSE fErrorSource
    /\ UNCHANGED <<FacadeParams, FacadeConn, fItemIndex, fThick, fOutcome, fPending,
                   txBeginCalls, txCommitCalls, txRollbackCalls, txCommitted>>
    /\ FacadeFrame

\* an executeTransaction that returns the batch results without committing
CommitsAfterBatchNever(node) == FALSE

\* executeTransaction: await txManager.commit() follows executeBatch, in both
\* versions of the node
CommitsAfterBatch(node) == TRUE

\* executeTransaction: executeBatch returned, await txManager.commit()
TxCommit ==
    /\ fPc = "txBatch" /\ txIndex = txStatements
    /\ IF CommitsAfterBatch(fNode)
       THEN /\ txCommitCalls' = txCommitCalls + 1
            /\ \E ok \in BOOLEAN :
                IF ok
                THEN /\ txCommitted' = TRUE
                     /\ TxMoves("Committed")
                     /\ fItemIndex' = fItemIndex + 1
                     /\ fPc' = IF fNode = "AdvancedV11" THEN "dispatch" ELSE "finally"
                     /\ UNCHANGED fErrorSource
                ELSE /\ fPc' = "txRollback"
                     /\ fErrorSource' = "transaction"
                     /\ UNCHANGED <<txCommitted, fItemIndex, txLog>>
       ELSE /\ fItemIndex' = fItemIndex + 1
            /\ fPc' = IF fNode = "AdvancedV11" THEN "dispatch" ELSE "finally"
            /\ UNCHANGED <<txCommitCalls, txCommitted, txLog, fErrorSource>>
    /\ UNCHANGED <<FacadeParams, FacadeConn, fThick, fOutcome, fPending, txIndex, txFailedAt,
                   txBeginCalls, txRollbackCalls>>
    /\ FacadeFrame

\* an executeTransaction whose catch block only rethrows
RollsBackInCatchNever(node) == FALSE

\* executeTransaction: catch (error) { await txManager.rollback(); throw error },
\* in both versions of the node
RollsBackInCatch(node) == TRUE

\* executeTransaction: catch (error) { await txManager.rollback(); throw error }
\* whether rollback succeeds or throws, an error leaves executeTransaction
TxRollback ==
    /\ fPc = "txRollback"
    /\ IF RollsBackInCatch(fNode)
       THEN /\ txRollbackCalls' = txRollbackCalls + 1
            /\ \E ok \in BOOLEAN :
                txLog' = [txLog EXCEPT ![Len(txLog)] =
                            [@ EXCEPT !.state = IF @ = "Begun" /\ ok THEN "RolledBack" ELSE @,
                                      !.rollback = IF ok THEN "ok" ELSE "failed"]]
       ELSE UNCHANGED <<txRollbackCalls, txLog>>
    /\ Raise(ItemError(fNode, "Error"), "transaction")
    /\ UNCHANGED <<FacadeParams, FacadeConn, fItemIndex, fThick, txIndex, txFailedAt,
                   txBeginCalls, txCommitCalls, txCommitted>>
    /\ FacadeFrame

\* execute: the outer catch block
FacadeCatch ==
    /\ fPc = "catch"
    /\ fPending' = OuterCatch(fNode, fPending)
    /\ fPc' = "finally"
    /\ UNCHANGED <<FacadeParams, TxCounters, FacadeConn, fItemIndex, fThick, fErrorSource,
                   fOutcome>>
    /\ FacadeFrame

\* execute: the finally block, then the return or the throw
FacadeFinally ==
    /\ fPc = "finally"
    /\ IF ClosesInFinally(fConnObtained, fPending # "none")
       THEN /\ fCloseCalls' = fCloseCalls + 1
            /\ \E closeOk \in BOOLEAN : fConnOpen' = ~closeOk
       ELSE UNCHANGED <<fCloseCalls, fConnOpen>>
    /\ fOutcome' = IF fPending = "none" THEN "returned" ELSE fPending
    /\ fPc' = "done"
    /\ UNCHANGED <<FacadeParams, TxCounters, fConnObtained, fItemIndex, fThick, fErrorSource,
                   fPending>>
    /\ FacadeFrame

\* one whole call of the probing entry point
ProbeEnds(p, source) ==
    /\ fConnObtained' = p.obtained
    /\ fConnOpen' = p.open
    /\ fCloseCalls' = p.closeCalls
    /\ fOutcome' = IF p.ok THEN "returned" ELSE "returnedFalse"
    /\ fErrorSource' = IF p.ok THEN "none" ELSE source
    /\ fPc' = "done"

\* OracleDatabaseAdvanced.testConnection and getSchemaInfo
AdvancedTestConnection ==
    /\ fNode = "AdvancedV11" /\ fEntry \in {"testConnection", "getSchemaInfo"} /\ fPc = "start"
    /\ \E raw \in RawCredentialRecords, alreadyThick \in BOOLEAN, initOk \in BOOLEAN,
          connOk \in BOOLEAN, execOk \in BOOLEAN, closeOk \in BOOLEAN :
        LET r == prepareOracleCredentials("v11", raw)
            thick == r.ok /\ isThickModeCredentials(r.credentials)
            clientOk == ~thick \/ alreadyThick \/ initOk
        IN  /\ fThick' = thick
            /\ ProbeEnds(AdvancedProbe(r.ok, clientOk, connOk, execOk, closeOk),
                         CASE ~r.ok -> "credentials"
                           [] ~clientOk -> "initClient"
                           [] ~connOk -> "getConnection"
                           [] ~execOk -> "orchestrator"
                           [] OTHER -> "close")
    /\ UNCHANGED <<FacadeParams, TxCounters, fItemIndex, fPending>>
    /\ FacadeFrame

\* OracleConnection.testConnection
ConnectionTestConnection ==
    /\ fNode = "OracleConnection" /\ fEntry = "testConnection" /\ fPc = "start"
    /\ \E connOk \in BOOLEAN, execOk \in BOOLEAN, closeOk \in BOOLEAN,
          closeAgainOk \in BOOLEAN :
        ProbeEnds(ConnectionProbe(connOk, execOk, closeOk, closeAgainOk),
                  CASE ~connOk -> "getConnection"
                    [] ~execOk -> "orchestrator"
                    [] OTHER -> "close")
    /\ UNCHANGED <<FacadeParams, TxCounters, fItemIndex, fPending, fThick>>
    /\ FacadeFrame

NextFacade ==
    \/ FacadePrepareCredentials
    \/ FacadeInitializeOracleClient
    \/ FacadeGetConnection
    \/ FacadeDispatch
    \/ TxBegin
    \/ TxExecuteStatement
    \/ TxCommit
    \/ TxRollback
    \/ FacadeCatch
    \/ FacadeFinally
    \/ AdvancedTestConnection
    \/ ConnectionTestConnection

SpecFacade == InitFacade /\ [][NextFacade]_vars

ExecuteDone == fEntry = "execute" /\ fPc = "done"

Threw == fOutcome \in {"Error", "NodeOperationError"}

\* C1: in every run of a facade's execute in which a connection was obtained,
\* connection.close() has been called exactly once when execute returns or
\* throws, whatever path was taken; it is never called twice, and never
\* without a connection.
C1_CloseExactlyOnce ==
    /\ fEntry = "execute" => (fCloseCalls <= 1 /\ (fCloseCalls = 1 => fConnObtained))
    /\ (ExecuteDone /\ fConnObtained) => fCloseCalls = 1

\* execute obtained a connection, an orchestrator call failed, and execute
\* threw after closing the connection once
C1_Witness ==
    /\ ExecuteDone /\ fConnObtained /\ fErrorSource = "orchestrator"
    /\ Threw /\ fCloseCalls = 1

\* C2: in a transaction run with continueOnError off, once a statement of the
\* batch has failed commit is never called and nothing is committed, and when
\* execute ends rollback was called once and an error was thrown.
C2_FailedTransactionRolledBack ==
    (fOpType = "transaction" /\ ~txContinueOnError /\ txFailedAt > 0) =>
        /\ txCommitCalls = 0
        /\ ~txCommitted
        /\ ExecuteDone => (txRollbackCalls = 1 /\ Threw)

\* the second statement of a transaction failed after the first succeeded,
\* and execute ended with a rollback and an error
C2_Witness ==
    /\ ExecuteDone /\ fOpType = "transaction" /\ ~txContinueOnError
    /\ txFailedAt = 2 /\ txRollbackCalls = 1 /\ txCommitCalls = 0 /\ Threw

\* C3 (as claimed): every error that escapes a facade's execute is a
\* NodeOperationError, wherever it was raised.
C3_OnlyNodeOperationErrorEscapes ==
    (ExecuteDone /\ Threw) => fOutcome = "NodeOperationError"

\* C8 (as claimed): testConnection and getSchemaInfo of the Advanced node and
\* OracleConnection.testConnection never finish without having called close()
\* on the connection they opened.
C8_ProbeClosesConnection ==
    (fEntry \in {"testConnection", "getSchemaInfo"} /\ fPc = "done" /\ fConnObtained) =>
        fCloseCalls >= 1

\* a step that calls beginTransaction
BeginsTransaction == fPc = "txBegin" /\ txBeginCalls' = 1

\* a step in which executeBatch executes a statement
ExecutesStatement == fPc = "txBatch" /\ txIndex' = txIndex + 1

\* execute is over and the connection, if there was one, went through close
ConnectionClosed == ExecuteDone /\ fOpType = "transaction"

FailedItemTransaction == {i \in 1 .. Len(txLog) : ExecuteDone /\ Threw /\ fErrorSource = "transaction" /\ txLog[i].item = fItemIndex}

\* one transaction per item, in item order, none for an item after the current one
OneTransactionPerItem == Len(txLog) <= fItemIndex + 1 /\ \A i \in 1 .. Len(txLog) : txLog[i].item = i - 1

\* every transaction but the latest is committed
EarlierItemsCommitted == \A i \in 1 .. Len(txLog) - 1 : txLog[i].state = "Committed"

C20_ProbeTrueIffConnectedAndQueried ==
    (fNode = "OracleConnection" /\ fEntry = "testConnection" /\ fPc = "done") =>
        /\ fOutcome \in {"returned", "returnedFalse"}
        /\ fOutcome = "returned" <=>
               (fConnObtained /\ fErrorSource \notin {"getConnection", "orchestrator"})

-----------------------------------------------------------------------------
(* Advanced node: executeBulkOperations *)

\* the continueOnError option handed to bulkInsert: the 1.1.0 node passes the
\* advanced option, the 1.0.0 node passes true
BulkContinueOnError(v, option) == IF v = "v11" THEN option ELSE TRUE

\* BulkOperations.bulkInsert's result: the rows inserted and one error entry
\* per failed row, naming its position
BulkInsertResult(inserted, errors) == [rowsAffected |-> inserted, errors |-> errors]

\* the item executeBulkOperations returns: the 1.1.0 node builds
\* {success: true, rowsProcessed, rowsInserted}, the 1.0.0 node returns the result itself
BulkReturnData(v, n, result) ==
    IF v = "v11"
    THEN [reportsSuccess |-> TRUE, rowsProcessed |-> n, rowsInserted |-> result.rowsAffected,
          hasErrors |-> FALSE, errors |-> {}]
    ELSE [reportsSuccess |-> FALSE, rowsProcessed |-> 0, rowsInserted |-> result.rowsAffected,
          hasErrors |-> TRUE, errors |-> result.errors]

InitBulk ==
    /\ IdleCred
    /\ IdleAQ
    /\ IdleConn
    /\ IdleFacade
    /\ IdleSanitize
    /\ IdleVector
    /\ IdleParams
    /\ IdleItems
    /\ IdleConcurrent
    /\ bkVariant \in {"v11", "v10"}
    /\ bkPc = "start"
    /\ bkTableBlank \in BOOLEAN
    /\ bkRows \in (IF bkVariant = "v11" THEN 1..MaxRows ELSE 0..MaxRows)
    /\ bkContinueOnError \in BOOLEAN
    /\ bkIndex = 0
    /\ bkInserted = 0
    /\ bkErrors = {}
    /\ bkItem = NoBulkItem

BulkParams == <<bkVariant, bkTableBlank, bkRows, bkContinueOnError>>

\* executeBulkOperations up to the bulkInsert call: the checks of the 1.1.0 node
BulkStart ==
    /\ bkPc = "start"
    /\ bkPc' = IF bkVariant = "v11" /\ (bkTableBlank \/ bkRows = 0) THEN "threw" ELSE "insert"
    /\ UNCHANGED <<BulkParams, bkIndex, bkInserted, bkErrors, bkItem>>
    /\ BulkFrame

\* bulkInsert: the next row; a failing row is recorded when continueOnError is
\* set and aborts the insert otherwise
BulkInsertRow ==
    /\ bkPc = "insert" /\ bkIndex < bkRows
    /\ bkIndex' = bkIndex + 1
    /\ \E ok \in BOOLEAN :
        IF ok
        THEN /\ bkInserted' = bkInserted + 1
             /\ UNCHANGED <<bkErrors, bkPc>>
        ELSE /\ UNCHANGED bkInserted
             /\ IF BulkContinueOnError(bkVariant, bkContinueOnError)
                THEN bkErrors' = bkErrors \cup {bkIndex + 1} /\ UNCHANGED bkPc
                ELSE bkPc' = "threw" /\ UNCHANGED bkErrors
    /\ UNCHANGED <<BulkParams, bkItem>>
    /\ BulkFrame

\* executeBulkOperations: bulkInsert returned, build and return the item
BulkReturn ==
    /\ bkPc = "insert" /\ bkIndex = bkRows
    /\ bkItem' = BulkReturnData(bkVariant, bkRows, BulkInsertResult(bkInserted, bkErrors))
    /\ bkPc' = "returned"
    /\ UNCHANGED <<BulkParams, bkIndex, bkInserted, bkErrors>>
    /\ BulkFrame

NextBulk == BulkStart \/ BulkInsertRow \/ BulkReturn

SpecBulk == InitBulk /\ [][NextBulk]_vars

\* C11 (as claimed): when a bulk insert run with continueOnError reports
\* failed rows, the item returned to the host carries the error entries of
\* those rows and does not report success.
C11_RowFailuresReported ==
    (bkPc = "returned" /\ BulkContinueOnError(bkVariant, bkContinueOnError) /\ bkErrors # {}) =>
        /\ bkItem.hasErrors
        /\ bkItem.errors = bkErrors
        /\ ~bkItem.reportsSuccess

-----------------------------------------------------------------------------
(* OracleCredentialsUtils.sanitizeForLogging *)

\* values of a string field of OracleCredentials; optional fields may be undefined
LoggedStrings == {"s1", "s2"}
LoggedOptionalStrings == {"undefined", "s1"}
LoggedSecrets == {"undefined", "secret1", "secret2"}

\* the credentials objects sanitizeForLogging is applied to
LoggedCredentials ==
    [user : LoggedStrings, password : LoggedSecrets \ {"undefined"},
     connectionString : LoggedStrings, thinMode : {"undefined", "true", "false"},
     libDir : LoggedOptionalStrings, configDir : LoggedOptionalStrings,
     errorUrl : LoggedSecrets]

\* a copy made by spreading the whole object and blanking only the password
SanitizeBySpread(c) == [credentials |-> c, result |-> [c EXCEPT !.password = "undefined"]]

\* sanitizeForLogging: a new object with five fields; the argument is left as it is
sanitizeForLogging(c) ==
    [credentials |-> c,
     result |-> [user |-> c.user, connectionString |-> c.connectionString,
                 thinMode |-> c.thinMode, libDir |-> c.libDir, configDir |-> c.configDir]]

InitSanitize ==
    /\ IdleCred
    /\ IdleAQ
    /\ IdleConn
    /\ IdleFacade
    /\ IdleBulk
    /\ IdleVector
    /\ IdleParams
    /\ IdleItems
    /\ IdleConcurrent
    /\ sanFirst \in LoggedCredentials
    /\ sanSecond \in {c \in LoggedCredentials :
                        /\ c.user = sanFirst.user
                        /\ c.connectionString = sanFirst.connectionString
                        /\ c.thinMode = sanFirst.thinMode
                        /\ c.libDir = sanFirst.libDir
                        /\ c.configDir = sanFirst.configDir}
    /\ sanFirstBefore = sanFirst
    /\ sanSecondBefore = sanSecond
    /\ sanFirstOut = NotSanitized
    /\ sanSecondOut = NotSanitized

\* sanitizeForLogging(first)
SanitizeFirst ==
    /\ sanFirstOut = NotSanitized
    /\ LET r == sanitizeForLogging(sanFirst)
       IN  sanFirst' = r.credentials /\ sanFirstOut' = r.result
    /\ UNCHANGED <<sanSecond, sanFirstBefore, sanSecondBefore, sanSecondOut>>
    /\ SanitizeFrame

\* sanitizeForLogging(second)
SanitizeSecond ==
    /\ sanSecondOut = NotSanitized
    /\ LET r == sanitizeForLogging(sanSecond)
       IN  sanSecond' = r.credentials /\ sanSecondOut' = r.result
    /\ UNCHANGED <<sanFirst, sanFirstBefore, sanSecondBefore, sanFirstOut>>
    /\ SanitizeFrame

NextSanitize == SanitizeFirst \/ SanitizeSecond

SpecSanitize == InitSanitize /\ [][NextSanitize]_vars

CopiedFields == {"user", "connectionString", "thinMode", "libDir", "configDir"}

\* C12: the object sanitizeForLogging returns has neither password nor
\* errorUrl, carries user, connectionString, thinMode, libDir and configDir
\* unchanged, is the same for two credentials that differ only in password
\* and errorUrl, and the argument is not changed.
C12_SanitizedHidesSecrets ==
    /\ sanFirstOut # NotSanitized =>
        /\ DOMAIN sanFirstOut = CopiedFields
        /\ \A f \in CopiedFields : sanFirstOut[f] = sanFirstBefore[f]
        /\ sanFirst = sanFirstBefore
    /\ (sanFirstOut # NotSanitized /\ sanSecondOut # NotSanitized) => sanFirstOut = sanSecondOut

\* two credentials with different passwords and different errorUrls were both sanitized
C12_Witness ==
    /\ sanFirstOut # NotSanitized /\ sanSecondOut # NotSanitized
    /\ sanFirstBefore.password # sanSecondBefore.password
    /\ sanFirstBefore.errorUrl # sanSecondBefore.errorUrl
    /\ sanFirstBefore.errorUrl # "undefined" /\ sanSecondBefore.errorUrl # "undefined"

-----------------------------------------------------------------------------
(* OracleVectorStore: setupCollection, addDocument, searchSimilarity,
   deleteDocument, updateDocument, getDocument *)

VectorOperations ==
    {"setup", "addDocument", "searchSimilarity", "deleteDocument", "updateDocument", "getDocument"}

\* collection names: identifiers, and strings that are not
CollectionNames ==
    {<<>>, <<"t">>, <<"t", "1">>, <<"t", "_">>, <<"1">>, <<"_", "t">>, <<"t", ";">>, <<"t", " ">>}

IdentifierLetters == {"t", "T"}
IdentifierTail == IdentifierLetters \cup {"1", "_"}

\* collectionName.match(/^[a-zA-Z][a-zA-Z0-9_]*$/)
IsIdentifier(name) ==
    /\ Len(name) >= 1
    /\ name[1] \in IdentifierLetters
    /\ \A i \in 2..Len(name) : name[i] \in IdentifierTail

\* every operation matching the collection name against the pattern
ValidatesCollectionNameAlways(op) == TRUE

\* the operations whose code matches the collection name against the pattern
ValidatesCollectionName(op) == op = "setup"

\* the statements an operation executes: for each, the parameters whose text
\* is spliced into the statement with ${...}; all others are bind values
VectorStatements(op, items) ==
    CASE op = "setup" -> << [sql |-> "createTable", spliced |-> {"collectionName", "vectorDimension"}],
                            [sql |-> "createIndex", spliced |-> {"collectionName"}] >>
      [] op = "addDocument" -> [i \in 1..items |-> [sql |-> "insert", spliced |-> {"collectionName"}]]
      [] op = "searchSimilarity" -> << [sql |-> "search", spliced |-> {"collectionName", "distanceMetric"}] >>
      [] op = "deleteDocument" -> << [sql |-> "delete", spliced |-> {"collectionName"}] >>
      [] op = "updateDocument" -> << [sql |-> "update", spliced |-> {"collectionName"}] >>
      [] OTHER -> << [sql |-> "select", spliced |-> {"collectionName"}] >>

InitVector ==
    /\ IdleCred
    /\ IdleAQ
    /\ IdleConn
    /\ IdleFacade
    /\ IdleBulk
    /\ IdleSanitize
    /\ IdleParams
    /\ IdleItems
    /\ IdleConcurrent
    /\ vsOperation \in VectorOperations
    /\ vsCollectionName \in CollectionNames
    /\ vsInputsValid \in BOOLEAN
    /\ vsItems \in (IF vsOperation = "addDocument" THEN 0..MaxDocuments ELSE {1})
    /\ vsPc = "start"
    /\ vsNameChecked = FALSE
    /\ vsIndex = 0
    /\ vsExecuted = {}

VectorParams == <<vsOperation, vsCollectionName, vsInputsValid, vsItems>>

\* the checks an operation makes before its first statement
VectorValidate ==
    /\ vsPc = "start"
    /\ vsNameChecked' = ValidatesCollectionName(vsOperation)
    /\ vsPc' = IF \/ ValidatesCollectionName(vsOperation) /\ ~IsIdentifier(vsCollectionName)
                  \/ ~vsInputsValid
                  \/ vsItems = 0
               THEN "threw" ELSE "run"
    /\ UNCHANGED <<VectorParams, vsIndex, vsExecuted>>
    /\ VectorFrame

\* connection.execute of the operation's next statement; addDocument records
\* a failing insert and goes on, the other operations rethrow
VectorExecute ==
    /\ vsPc = "run" /\ vsIndex < Len(VectorStatements(vsOperation, vsItems))
    /\ vsIndex' = vsIndex + 1
    /\ vsExecuted' = vsExecuted \cup
          {[sql |-> VectorStatements(vsOperation, vsItems)[vsIndex + 1].sql,
            spliced |-> VectorStatements(vsOperation, vsItems)[vsIndex + 1].spliced,
            collectionName |-> vsCollectionName]}
    /\ \E ok \in BOOLEAN :
        vsPc' = IF ok \/ vsOperation = "addDocument" THEN "run" ELSE "threw"
    /\ UNCHANGED <<VectorParams, vsNameChecked>>
    /\ VectorFrame

\* the operation returns its items
VectorReturn ==
    /\ vsPc = "run" /\ vsIndex = Len(VectorStatements(vsOperation, vsItems))
    /\ vsPc' = "returned"
    /\ UNCHANGED <<VectorParams, vsNameChecked, vsIndex, vsExecuted>>
    /\ VectorFrame

NextVector == VectorValidate \/ VectorExecute \/ VectorReturn

SpecVector == InitVector /\ [][NextVector]_vars

\* C13 (as claimed): in every Vector Store operation, a statement whose text
\* contains the collection name is executed only after the name was matched
\* against the identifier pattern and found to be an identifier.
C13_CollectionNameAlwaysChecked ==
    \A e \in vsExecuted :
        "collectionName" \in e.spliced => (vsNameChecked /\ IsIdentifier(e.collectionName))

\* C15 (as claimed): an already-initialised error (DPI-1072) raised by
\* initOracleClient in the Advanced node's initializeOracleClient is ignored
\* and execute goes on to obtain the connection.
C15_AlreadyInitializedIgnored ==
    (clientInitOutcome = "DPI-1072" /\ credPc # "initClient") => credPc \in {"connect", "done"}

\* rawCredentials.thinMode === false
RawThick(raw) == raw.thinMode = JsBool(FALSE)

\* C18 (as claimed): with thinMode === false normalization fails when libDir
\* is absent or empty and succeeds when libDir is set, createConnectionConfig
\* then giving mode 'thick' with that libDir; with any other thinMode the
\* derived mode is 'thin'.
C18_ThickNeedsLibDir ==
    credPc # "prepare" =>
        /\ (RawThick(rawCredentials) /\ ~Truthy(rawCredentials.libDir)) => ~credResult.ok
        /\ (RawThick(rawCredentials) /\ Truthy(rawCredentials.libDir)) =>
               /\ credResult.ok
               /\ (credPc = "done" =>
                      connectionConfig = [mode |-> "thick", libDir |-> rawCredentials.libDir])
        /\ (~RawThick(rawCredentials) /\ credPc = "done") => connectionConfig.mode = "thin"

\* libDir has a character that is not white space
HasContent(v) == v.t = "str" /\ \E i \in 1..Len(v.s) : v.s[i] # " "

\* the libDir that counts as set: non-empty, and for 1.1.0 not blank
LibDirSet(v, raw) == IF v = "v11" THEN HasContent(raw.libDir) ELSE Truthy(raw.libDir)

\* the libDir the configuration carries: trimmed by 1.1.0
CarriedLibDir(v, raw) == IF v = "v11" THEN JsStr(Trim(raw.libDir.s)) ELSE raw.libDir

\* C18 (amended): with thinMode === false normalization fails when libDir
\* is absent, empty or, in 1.1.0, made only of white space; otherwise it
\* succeeds and createConnectionConfig gives mode 'thick' with that libDir
\* (trimmed in 1.1.0); with any other thinMode the derived mode is 'thin'.
C18_ThickNeedsNonBlankLibDir ==
    credPc # "prepare" =>
        /\ (RawThick(rawCredentials) /\ ~LibDirSet(variant, rawCredentials)) => ~credResult.ok
        /\ (RawThick(rawCredentials) /\ LibDirSet(variant, rawCredentials)) =>
               /\ credResult.ok
               /\ (credPc = "done" =>
                      connectionConfig =
                          [mode |-> "thick", libDir |-> CarriedLibDir(variant, rawCredentials)])
        /\ (~RawThick(rawCredentials) /\ credPc = "done") => connectionConfig.mode = "thin"

\* thick credentials with a libDir went through normalization and
\* createConnectionConfig
C18_Witness ==
    /\ credPc = "done"
    /\ RawThick(rawCredentials)
    /\ connectionConfig.mode = "thick"
    /\ connectionConfig.libDir = JsStr(<<"h">>)

-----------------------------------------------------------------------------
(* Parameter rows to bind map *)

MaxParams == 2

ParamFacades == {"AdvancedV11", "AdvancedV10", "Basic"}

\* the datatype option of a row
ParamDatatypes == {"number", "date", "string"}

\* the text of a row's value: '', '1', '2024-01-01', 'x'
ParamValues == {"empty", "numeric", "dateText", "text"}

ParamRows == [datatype : ParamDatatypes, value : ParamValues, named : BOOLEAN]

\* Number(text): Number('') is 0, Number('1') is 1, anything else here is NaN
NumberOf(value) == IF value \in {"empty", "numeric"} THEN "number" ELSE "NaN"

\* new Date(text): '1' and '2024-01-01' parse, '' and 'x' give Invalid Date
DateOf(value) == IF value \in {"numeric", "dateText"} THEN "date" ELSE "InvalidDate"

\* processParameters of 1.1.0, one row: [skip, throws, value]
ProcessParameterV11(row) ==
    IF ~row.named THEN [skip |-> TRUE, throws |-> FALSE, value |-> "none"]
    ELSE CASE row.datatype = "number" ->
                  LET v == IF row.value = "empty" THEN "null" ELSE NumberOf(row.value)
                  IN  [skip |-> FALSE, throws |-> v = "NaN", value |-> v]
           [] row.datatype = "date" ->
                  LET v == IF row.value = "empty" THEN "null" ELSE DateOf(row.value)
                  IN  [skip |-> FALSE, throws |-> v = "InvalidDate", value |-> v]
           [] OTHER -> [skip |-> FALSE, throws |-> FALSE, value |-> "string"]

\* processParameters of 1.0.0, one row: no check at all
ProcessParameterV10(row) ==
    [skip |-> FALSE, throws |-> FALSE,
     value |-> CASE row.datatype = "number" -> NumberOf(row.value)
                 [] row.datatype = "date" -> DateOf(row.value)
                 [] OTHER -> "string"]

\* OracleDatabase.execute, reduce callback: Number(item.value) for 'number',
\* String(item.value) otherwise (a list value is split and each piece
\* converted in the same way)
ProcessParameterBasic(row) ==
    [skip |-> FALSE, throws |-> FALSE,
     value |-> IF row.datatype = "number" THEN NumberOf(row.value) ELSE "string"]

ProcessParameter(facade, row) ==
    CASE facade = "AdvancedV11" -> ProcessParameterV11(row)
      [] facade = "AdvancedV10" -> ProcessParameterV10(row)
      [] OTHER -> ProcessParameterBasic(row)

InitParams ==
    /\ IdleCred
    /\ IdleAQ
    /\ IdleConn
    /\ IdleFacade
    /\ IdleBulk
    /\ IdleSanitize
    /\ IdleVector
    /\ IdleItems
    /\ IdleConcurrent
    /\ pmFacade \in ParamFacades
    /\ pmRows \in UNION {[1..n -> ParamRows] : n \in 0..MaxParams}
    /\ pmPc = "translate"
    /\ pmIndex = 0
    /\ pmBinds = <<>>
    /\ pmExecuted = FALSE

\* one turn of the loop over the parameter rows
TranslateParameter ==
    /\ pmPc = "translate"
    /\ pmIndex < Len(pmRows)
    /\ LET r == ProcessParameter(pmFacade, pmRows[pmIndex + 1])
       IN  /\ pmPc' = IF r.throws THEN "threw" ELSE "translate"
           /\ pmBinds' = IF r.skip \/ r.throws THEN pmBinds ELSE Append(pmBinds, r.value)
    /\ pmIndex' = pmIndex + 1
    /\ UNCHANGED <<pmFacade, pmRows, pmExecuted>>
    /\ ParamFrame

\* return bindParameters
ParametersTranslated ==
    /\ pmPc = "translate"
    /\ pmIndex = Len(pmRows)
    /\ pmPc' = "execute"
    /\ UNCHANGED <<pmFacade, pmRows, pmIndex, pmBinds, pmExecuted>>
    /\ ParamFrame

\* connection.execute(statement, bindParameters, ...): the driver accepts
\* or rejects the statement
ExecuteWithBinds ==
    /\ pmPc = "execute"
    /\ pmExecuted' = TRUE
    /\ \E ok \in BOOLEAN : pmPc' = IF ok THEN "done" ELSE "threw"
    /\ UNCHANGED <<pmFacade, pmRows, pmIndex, pmBinds>>
    /\ ParamFrame

NextParams == TranslateParameter \/ ParametersTranslated \/ ExecuteWithBinds

SpecParams == InitParams /\ [][NextParams]_vars

Range(seq) == {seq[i] : i \in 1..Len(seq)}

\* C16 (as claimed): no bind map handed to the driver contains NaN or an
\* invalid Date, in any facade that translates parameter rows.
C16_NoInvalidBinds ==
    pmExecuted => Range(pmBinds) \cap {"NaN", "InvalidDate"} = {}

-----------------------------------------------------------------------------
(* Item loop of OracleDatabaseAdvanced.execute and the error it throws *)

ItemOperations == {"query", "plsql", "procedure", "bulk", "transaction", "queue"}

\* messages of the errors thrown by the driver and the orchestrators
OriginalTexts == {"ORA-00942", "ORA-00001"}

\* new Error(text)
PlainError(text) == [kind |-> "Error", itemIndex |-> -1, message |-> <<text>>]

\* `${itemIndex}` inside a template string
ItemIndexText(i) == <<"0", "1", "2", "3", "4">>[i + 1]

\* bulkInsert: a failing row aborts the insert with an error unless
\* continueOnError is set
BulkInsertAborts(continueOnError) == ~continueOnError

\* catch (itemError): new NodeOperationError(node,
\*     `Error processing item ${itemIndex}: ${errorMessage}`, {itemIndex, ...})
WrapItemError(error, index) ==
    [kind |-> "NodeOperationError", itemIndex |-> index,
     message |-> <<"Error processing item ", ItemIndexText(index), ": ">> \o error.message]

\* the outer catch: 1.1.0 rethrows a NodeOperationError as it is; otherwise
\* new NodeOperationError(node, `Oracle Advanced Error (...): ${errorMessage}`,
\*     {itemIndex: 0, ...})
WrapOuterError(v, error) ==
    IF v = "v11" /\ error.kind = "NodeOperationError" THEN error
    ELSE [kind |-> "NodeOperationError", itemIndex |-> 0,
          message |-> <<"Oracle Advanced Error (", "mode", "): ">> \o error.message]

InitItems ==
    /\ IdleCred
    /\ IdleAQ
    /\ IdleConn
    /\ IdleFacade
    /\ IdleBulk
    /\ IdleSanitize
    /\ IdleVector
    /\ IdleParams
    /\ IdleConcurrent
    /\ itVariant \in {"v11", "v10"}
    /\ itOp \in (IF itVariant = "v11" THEN ItemOperations ELSE ItemOperations \ {"procedure"})
    /\ itItems \in 0..MaxItems
    /\ itContinueOnError \in BOOLEAN
    /\ itPc = "connect"
    /\ itIndex = 0
    /\ itOffending = -1
    /\ itOriginal = "none"
    /\ itError = NoItemError
    /\ itTableBlank \in (IF itOp = "bulk" THEN BOOLEAN ELSE {FALSE})
    /\ itInvoked = <<>>
    /\ itBulkInserts = <<>>

ItemParams == <<itVariant, itOp, itItems, itContinueOnError, itTableBlank>>

ItemCalls == <<itInvoked, itBulkInserts>>

\* a for loop that steps over every second item
NextItemIndexSkipping(i) == i + 2

\* for (let itemIndex = 0; itemIndex < items.length; itemIndex++)
NextItemIndex(i) == i + 1

\* the orchestrator or the driver throws an error with the given text while
\* the data of input item `offending` is processed
ItemThrows(text, offending, to) ==
    /\ itError' = PlainError(text)
    /\ itOriginal' = text
    /\ itOffending' = offending
    /\ itPc' = to

\* execute: credentials, client, connection or pool (inside the outer try)
ItemsConnect ==
    /\ itPc = "connect"
    /\ \/ itPc' = "loop" /\ UNCHANGED <<itOffending, itOriginal, itError>>
       \/ \E text \in OriginalTexts : ItemThrows(text, -1, "outerCatch")
    /\ UNCHANGED <<ItemParams, itIndex, ItemCalls>>
    /\ ItemFrame

\* 1.1.0: one turn of for (let itemIndex = 0; itemIndex < items.length; ...).
\* Bulk checks the target table, hands the data of all items to bulkInsert in
\* the first turn and leaves the loop; bulkInsert stops at the first failing
\* row unless continueOnError is set
ProcessItem ==
    /\ itPc = "loop" /\ itVariant = "v11" /\ itIndex < itItems
    /\ CASE itOp = "procedure" ->
                /\ ItemThrows("not yet implemented", itIndex, "itemCatch")
                /\ UNCHANGED <<itIndex, ItemCalls>>
         [] itOp = "bulk" ->
                IF itIndex # 0
                THEN /\ itPc' = "returned"
                     /\ UNCHANGED <<itIndex, itOffending, itOriginal, itError, ItemCalls>>
                ELSE IF itTableBlank
                THEN /\ ItemThrows("Target table name cannot be empty", itIndex, "itemCatch")
                     /\ UNCHANGED <<itIndex, ItemCalls>>
                ELSE /\ itBulkInserts' = Append(itBulkInserts, itItems)
                     /\ UNCHANGED <<itIndex, itInvoked>>
                     /\ \/ /\ itPc' = "returned"
                           /\ UNCHANGED <<itOffending, itOriginal, itError>>
                        \/ /\ BulkInsertAborts(itContinueOnError)
                           /\ \E row \in 0..(itItems - 1), text \in OriginalTexts :
                                  ItemThrows(text, row, "itemCatch")
         [] OTHER ->
                /\ itInvoked' = Append(itInvoked, itIndex)
                /\ UNCHANGED itBulkInserts
                /\ \/ /\ itIndex' = NextItemIndex(itIndex)
                      /\ UNCHANGED <<itPc, itOffending, itOriginal, itError>>
                   \/ /\ \E text \in OriginalTexts : ItemThrows(text, itIndex, "itemCatch")
                      /\ UNCHANGED itIndex
    /\ UNCHANGED ItemParams
    /\ ItemFrame

\* 1.1.0: the loop is over
ItemsProcessed ==
    /\ itPc = "loop" /\ itVariant = "v11" /\ itIndex >= itItems
    /\ itPc' = "returned"
    /\ UNCHANGED <<ItemParams, itIndex, itOffending, itOriginal, itError, ItemCalls>>
    /\ ItemFrame

\* 1.0.0: no loop; the operation runs once with the parameters of item 0
\* (bulk: with the data of all items and continueOnError: true)
ProcessFirstItemOnly ==
    /\ itPc = "loop" /\ itVariant = "v10"
    /\ IF itOp = "bulk"
       THEN /\ itBulkInserts' = Append(itBulkInserts, itItems)
            /\ UNCHANGED itInvoked
       ELSE /\ itInvoked' = Append(itInvoked, 0)
            /\ UNCHANGED itBulkInserts
    /\ \/ itPc' = "returned" /\ UNCHANGED <<itOffending, itOriginal, itError>>
       \/ /\ itOp # "bulk"
          /\ \E text \in OriginalTexts : ItemThrows(text, 0, "outerCatch")
    /\ UNCHANGED <<ItemParams, itIndex>>
    /\ ItemFrame

\* 1.1.0: catch (itemError) of the loop body
ItemCatch ==
    /\ itPc = "itemCatch"
    /\ itError' = WrapItemError(itError, itIndex)
    /\ itPc' = "outerCatch"
    /\ UNCHANGED <<ItemParams, itIndex, itOffending, itOriginal, ItemCalls>>
    /\ ItemFrame

\* catch (error) of execute
ItemsOuterCatch ==
    /\ itPc = "outerCatch"
    /\ itError' = WrapOuterError(itVariant, itError)
    /\ itPc' = "threw"
    /\ UNCHANGED <<ItemParams, itIndex, itOffending, itOriginal, ItemCalls>>
    /\ ItemFrame

NextItems ==
    \/ ItemsConnect
    \/ ProcessItem
    \/ ItemsProcessed
    \/ ProcessFirstItemOnly
    \/ ItemCatch
    \/ ItemsOuterCatch

SpecItems == InitItems /\ [][NextItems]_vars

\* C17 (as claimed): when the processing of input item k fails, the error
\* thrown to the host carries itemIndex = k and its message contains the
\* text of the original error.
C17_ErrorCarriesFailingItem ==
    (itPc = "threw" /\ itOffending >= 0) =>
        /\ itError.kind = "NodeOperationError"
        /\ itError.itemIndex = itOffending
        /\ itOriginal \in Range(itError.message)

\* the operations whose orchestrator is called once per item
PerItemOperations == {"query", "plsql", "transaction", "queue"}

\* execute of the 1.1.0 node is over, having reached the item loop
LoopFinished ==
    /\ itVariant = "v11"
    /\ itPc \in {"returned", "threw"}
    /\ itPc = "threw" => itOffending >= 0

\* the orchestrator was invoked for items 0, 1, ... in that order, once
\* each; for all items when execute returned, and for none after a failing one
InvokedInOrder ==
    /\ \A j \in 1..Len(itInvoked) : itInvoked[j] = j - 1
    /\ Len(itInvoked) <= itItems
    /\ (itPc = "returned" => Len(itInvoked) = itItems)
    /\ (itOffending >= 0 => Len(itInvoked) = itOffending + 1)

\* C23 (as claimed): the 1.1.0 execute invokes the orchestrator once per
\* input item, in input order, for query, PL/SQL, transaction and queue, and
\* processes no item after the first failing one; for bulk it invokes
\* bulkInsert exactly once, with all N items, for every N >= 1.
C23_OncePerItemAndBulkOnce ==
    /\ (itVariant = "v11" /\ itOp \in PerItemOperations) => InvokedInOrder
    /\ (itVariant = "v11" /\ itOp = "bulk") =>
           /\ Len(itBulkInserts) <= 1
           /\ \A j \in 1..Len(itBulkInserts) : itBulkInserts[j] = itItems
           /\ (LoopFinished /\ itItems >= 1) => Len(itBulkInserts) = 1

\* C23 (amended): as above, bulkInsert being invoked exactly once for every
\* N >= 1 when the target table name is not blank, and not at all when it is.
C23_OncePerItemAndBulkOnceWithTable ==
    /\ (itVariant = "v11" /\ itOp \in PerItemOperations) => InvokedInOrder
    /\ (itVariant = "v11" /\ itOp = "bulk") =>
           /\ Len(itBulkInserts) <= 1
           /\ \A j \in 1..Len(itBulkInserts) : itBulkInserts[j] = itItems
           /\ (LoopFinished /\ itItems >= 1) =>
                  Len(itBulkInserts) = (IF itTableBlank THEN 0 ELSE 1)

\* two items went through a per-item operation and execute returned
C23_Witness ==
    /\ itVariant = "v11" /\ itOp = "query" /\ itPc = "returned"
    /\ itItems = 2 /\ itInvoked = <<0, 1>>

-----------------------------------------------------------------------------
(* The connection a node opens when 'Use Thin Mode' is true *)

ConnectingNodes == {"Advanced", "Basic"}

\* credentials with 'Use Thin Mode' = true and no libDir, as both versions
\* of prepareOracleCredentials shape them
ThinModeCredentials ==
    [user |-> JsStr(<<"h">>), password |-> JsStr(<<"h">>), connectionString |-> JsStr(<<"h">>),
     thinMode |-> TRUE, libDir |-> JsUndef]

\* the mode the node hands to new OracleConnection: the Advanced node passes
\* createConnectionConfig(credentials), the basic node passes no
\* configuration and the constructor takes { mode: 'auto' }
NodeConnectionMode(node) ==
    IF node = "Advanced" THEN createConnectionConfig(ThinModeCredentials).mode ELSE "auto"

\* as InitConn, for an OracleConnection built by a node: no libDir, and
\* autoInstall at the constructor's default
InitNodeConn ==
    /\ IdleCred
    /\ IdleAQ
    /\ IdleFacade
    /\ IdleBulk
    /\ IdleSanitize
    /\ IdleVector
    /\ IdleParams
    /\ IdleItems
    /\ IdleConcurrent
    /\ \E node \in ConnectingNodes : initialMode = NodeConnectionMode(node)
    /\ connMode = initialMode
    /\ libDirGiven = FALSE
    /\ connLibDir = libDirGiven
    /\ autoInstall = TRUE
    /\ detectedConfig = "unset"
    /\ clientInitialized \in BOOLEAN
    /\ envLibPath \in BOOLEAN
    /\ envPathOracle \in BOOLEAN
    /\ posix \in BOOLEAN
    /\ detectorPresent \in BOOLEAN
    /\ installerPresent \in BOOLEAN
    /\ processAlive = TRUE
    /\ connPc = "idle"
    /\ connCalls = 0
    /\ connResult = "none"
    /\ initDepth = 0
    /\ resolved = NotResolved
    /\ lastInstall = "none"
    /\ fellBack = FALSE
    /\ initClientCalls = 0
    /\ installerRuns = 0
    /\ driverConnectCalls = 0

SpecNodeConn == InitNodeConn /\ [][NextConn]_vars

\* C19 (as claimed): with 'Use Thin Mode' = true a node execution connects
\* in thick mode if an Oracle Client was detected and in thin mode otherwise.
C19_ThickWhenClientDetected ==
    (connPc = "idle" /\ connCalls = 1 /\ connResult = "connection") =>
        (connMode = "thick" <=> resolved.detected)

-----------------------------------------------------------------------------
(* Concurrent getConnection calls in one process *)

\* Every call is made in thick mode on its own OracleConnection. A call runs
\* without interruption from one await to the next; the static
\* clientInitialized, the driver and the file system are shared.

InitConcurrent ==
    /\ IdleCred
    /\ IdleAQ
    /\ IdleConn
    /\ IdleFacade
    /\ IdleBulk
    /\ IdleSanitize
    /\ IdleVector
    /\ IdleParams
    /\ IdleItems
    /\ ccPc = NoCallRunning
    /\ ccAutoInstall \in [ConcurrentCalls -> BOOLEAN]
    /\ ccClientInitialized \in BOOLEAN
    /\ ccDriverThick = ccClientInitialized
    /\ ccClientOnDisk \in BOOLEAN
    /\ ccInstallerRuns = NoInstallerRun
    /\ ccInitSuccesses = 0

\* what oracledb.initOracleClient can answer in the driver's present state
ThickInitOutcomes == IF ccDriverThick THEN {"ok", "DPI-1072"} ELSE {"ok", "DPI-1047", "other"}

\* initializeThickClient up to its first await: the driver call, the flag, and
\* on DPI-1047 with autoInstall the start of installer.run()
ConcurrentInitThick(c) ==
    \E outcome \in ThickInitOutcomes :
        /\ ccInitSuccesses' = IF outcome = "ok" THEN ccInitSuccesses + 1 ELSE ccInitSuccesses
        /\ ccDriverThick' = (ccDriverThick \/ outcome = "ok")
        /\ ccClientInitialized' = (ccClientInitialized \/ outcome \in {"ok", "DPI-1072"})
        /\ IF outcome = "DPI-1047" /\ ccAutoInstall[c]
           THEN /\ ccInstallerRuns[c] < MaxInitDepth
                /\ ccInstallerRuns' = [ccInstallerRuns EXCEPT ![c] = @ + 1]
                /\ ccPc' = [ccPc EXCEPT ![c] = "installerCheck"]
           ELSE /\ UNCHANGED ccInstallerRuns
                /\ ccPc' = [ccPc EXCEPT ![c] = IF outcome \in {"ok", "DPI-1072"}
                                                THEN "connect" ELSE "failed"]

\* getConnection is called and waits for the auto-detection
ConcurrentGetConnection(c) ==
    /\ ccPc[c] = "idle"
    /\ ccPc' = [ccPc EXCEPT ![c] = "detect"]
    /\ UNCHANGED <<ccAutoInstall, ccClientInitialized, ccDriverThick, ccClientOnDisk,
                   ccInstallerRuns, ccInitSuccesses>>
    /\ ConcFrame

\* configureConnectionMode resumes after the detection and tests the flag
ConcurrentConfigureMode(c) ==
    /\ ccPc[c] = "detect"
    /\ IF ~ccClientInitialized
       THEN ConcurrentInitThick(c)
       ELSE /\ ccPc' = [ccPc EXCEPT ![c] = "connect"]
            /\ UNCHANGED <<ccClientInitialized, ccDriverThick, ccInstallerRuns, ccInitSuccesses>>
    /\ UNCHANGED <<ccAutoInstall, ccClientOnDisk>>
    /\ ConcFrame

\* installer.run() resumes after checkSystemOracleClient: an existing client
\* is returned without libDir, otherwise installOracleClient starts downloading
InstallerChecksSystem(c) ==
    /\ ccPc[c] = "installerCheck"
    /\ \E systemFound \in BOOLEAN :
           ccPc' = [ccPc EXCEPT ![c] = IF systemFound \/ ccClientOnDisk
                                        THEN "connect" ELSE "installing"]
    /\ UNCHANGED <<ccAutoInstall, ccClientInitialized, ccDriverThick, ccClientOnDisk,
                   ccInstallerRuns, ccInitSuccesses>>
    /\ ConcFrame

\* the installation ends: run() returns the libDir and tryAutoInstall
\* initialises again, or run() ends the process
InstallationCompletes(c) ==
    /\ ccPc[c] = "installing"
    /\ \E installed \in BOOLEAN :
           IF installed
           THEN /\ ccClientOnDisk' = TRUE
                /\ ConcurrentInitThick(c)
           ELSE /\ ccPc' = [d \in ConcurrentCalls |-> "exited"]
                /\ UNCHANGED <<ccClientInitialized, ccDriverThick, ccClientOnDisk,
                               ccInstallerRuns, ccInitSuccesses>>
    /\ UNCHANGED ccAutoInstall
    /\ ConcFrame

\* oracledb.getConnection answers
ConcurrentDriverConnect(c) ==
    /\ ccPc[c] = "connect"
    /\ \E connected \in BOOLEAN :
           ccPc' = [ccPc EXCEPT ![c] = IF connected THEN "done" ELSE "failed"]
    /\ UNCHANGED <<ccAutoInstall, ccClientInitialized, ccDriverThick, ccClientOnDisk,
                   ccInstallerRuns, ccInitSuccesses>>
    /\ ConcFrame

NextConcurrent ==
    \/ \E c \in ConcurrentCalls : ConcurrentGetConnection(c)
    \/ \E c \in ConcurrentCalls : ConcurrentConfigureMode(c)
    \/ \E c \in ConcurrentCalls : InstallerChecksSystem(c)
    \/ \E c \in ConcurrentCalls : InstallationCompletes(c)
    \/ \E c \in ConcurrentCalls : ConcurrentDriverConnect(c)

SpecConcurrent == InitConcurrent /\ [][NextConcurrent]_vars

\* the calls that have started the auto-installer
InstallerStartedBy == {c \in ConcurrentCalls : ccInstallerRuns[c] > 0}

\* the calls whose installation is downloading
InstallationsInFlight == {c \in ConcurrentCalls : ccPc[c] = "installing"}

\* C26 (as claimed): with several thick-mode getConnection calls interleaved
\* at their awaits, the shared clientInitialized flag lets at most one call
\* start the auto-installer, keeps at most one installation in flight, and
\* lets oracledb.initOracleClient succeed at most once.
C26_OneInstallerOneInit ==
    /\ Cardinality(InstallerStartedBy) <= 1
    /\ Cardinality(InstallationsInFlight) <= 1
    /\ ccInitSuccesses <= 1

====
